---- MODULE Spec2Model ----
(***************************************************************************)
(* A model of the RTRQ manager (packages/manager/src/server.ts) and of the *)
(* key matcher (packages/utils/src/keys/matcher.ts).                       *)
(*                                                                         *)
(* The server is single threaded: every uWebSockets.js callback (upgrade,  *)
(* open, message, close), every POST /invalidate body and every direct     *)
(* call of invalidateQuery runs to completion, so each is one action.      *)
(* EventEmitter listeners run synchronously inside the handler; what they  *)
(* can see is recorded in the events of `last`, each with a snapshot of    *)
(* the registry taken at the emit.                                         *)
(***************************************************************************)
EXTENDS Integers, Sequences, FiniteSets, TLC

(***************************************************************************)
(* Bounds                                                                  *)
(***************************************************************************)
\* number of WebSocket handles the transport ever creates
NumConns == 2
\* longest key the matcher is applied to in SpecMatch
MaxKeyLen == 2
\* most listeners registered on one authorization hook
MaxHandlers == 2
\* number of WebSocket objects the client ever creates
MaxSockets == 4
\* number of calls of WebSocketClient.subscribe
MaxRegs == 3

\* the most chunks in which one request body arrives
MaxChunks == 3

Conns == 1..NumConns

(***************************************************************************)
(* Key elements.  A JavaScript value is a record                           *)
(*   t   : its type                                                        *)
(*   v   : its content (for a composite: its content up to deep equality)  *)
(*   ord : for an object, the order in which its fields were inserted      *)
(*   ref : for an array or object, the identity of the instance; 0 for a   *)
(*         primitive                                                       *)
(***************************************************************************)
Prim(t, v) == [t |-> t, v |-> v, ord |-> 0, ref |-> 0]
Comp(t, v, ord, ref) == [t |-> t, v |-> v, ord |-> ord, ref |-> ref]

IsComposite(x) == x.t \in {"arr", "obj"}

\* "post", "user", "12"
StrPost == Prim("str", 1)
StrUser == Prim("str", 2)
Str12 == Prim("str", 12)
\* 12
Num12 == Prim("num", 12)
\* true, null
BoolTrue == Prim("bool", 1)
Null == Prim("null", 0)
\* ["urgent", "important"]: two instances with the same content
ArrA1 == Comp("arr", 1, 0, 1)
ArrA2 == Comp("arr", 1, 0, 2)
\* ["urgent"]
ArrB == Comp("arr", 2, 0, 3)

\* { id: 123, page: 1 } and { page: 1, id: 123 }: the same fields with the
\* same values, inserted in a different order
ObjAB == Comp("obj", 3, 1, 4)
ObjBA == Comp("obj", 3, 2, 5)

\* a reference no value of a caller carries: JSON.parse allocates above it
FreshBase == 100

\* the operator === of JavaScript
StrictEq(a, b) ==
    IF IsComposite(a) \/ IsComposite(b)
    THEN a.t = b.t /\ a.ref = b.ref
    ELSE a.t = b.t /\ a.v = b.v

\* deep (structural) equality of two values
DeepEq(a, b) == a.t = b.t /\ a.v = b.v

(***************************************************************************)
(* matcher.ts                                                              *)
(***************************************************************************)
\* Array.prototype.every with a callback comparing to the other key
every(a, b) == \A index \in 1..Len(a) : StrictEq(a[index], b[index])

\* isKeyMatch without its prefix branch
isKeyMatch_exactOnly(subscriptionKey, invalidationKey) ==
    IF Len(subscriptionKey) = Len(invalidationKey)
    THEN every(subscriptionKey, invalidationKey)
    ELSE FALSE

isKeyMatch(subscriptionKey, invalidationKey) ==
    IF Len(subscriptionKey) = Len(invalidationKey)
    THEN every(subscriptionKey, invalidationKey)
    ELSE IF Len(invalidationKey) < Len(subscriptionKey)
         THEN every(invalidationKey, subscriptionKey)
         ELSE FALSE

(***************************************************************************)
(* JSON.stringify and JSON.parse on keys.  The text of a key is the        *)
(* sequence of its elements' texts; the text of a value has its type, its  *)
(* content and, for an object, its field order, and no identity.  Parsing  *)
(* builds new instances.                                                   *)
(***************************************************************************)
Text(x) == [t |-> x.t, v |-> x.v, ord |-> x.ord]

JSONstringify(key) == [i \in 1..Len(key) |-> Text(key[i])]

JSONparse(str) ==
    [i \in 1..Len(str) |->
        [t |-> str[i].t, v |-> str[i].v, ord |-> str[i].ord,
         ref |-> IF str[i].t \in {"arr", "obj"} THEN FreshBase + i ELSE 0]]

(***************************************************************************)
(* Finite maps (Map of JavaScript) and the order of iteration.  A Map and  *)
(* a Set iterate in insertion order; the model keeps no insertion order    *)
(* and visits the entries in one fixed order.                              *)
(***************************************************************************)
Put(f, k, x) == [y \in (DOMAIN f) \cup {k} |-> IF y = k THEN x ELSE f[y]]

Delete(f, k) == [y \in (DOMAIN f) \ {k} |-> f[y]]

EmptyMap == [y \in {} |-> {}]

RECURSIVE SetToSeq(_)
SetToSeq(S) ==
    IF S = {} THEN <<>>
    ELSE LET x == CHOOSE y \in S : TRUE
         IN <<x>> \o SetToSeq(S \ {x})

Range(seq) == {seq[i] : i \in 1..Len(seq)}

(***************************************************************************)
(* State                                                                   *)
(***************************************************************************)
VARIABLES
    \* RTRQServer.subscriptions: text of a key -> set of WebSocket handles
    subscriptions,
    \* RTRQServer.clientIds: WebSocket handle -> number n of "client-n"
    clientIds,
    \* RTRQServer.clientRequests: WebSocket handle -> its upgrade request
    clientRequests,
    \* RTRQServer.nextClientId
    nextClientId,
    \* the transport's view of each handle:
    \* "new", "rejected", "upgraded", "open", "dead", "closed"
    conn,
    \* history: the pairs <<handle, key text>> subscribed and not since
    \* unsubscribed, closed or purged
    subscribed,
    \* what the last handler did: its inputs, replies and emitted events
    last,
    \* the last application of isKeyMatch (SpecMatch)
    mk,
    \* the browser side (SpecClient): the WebSocketClient, the sockets it
    \* created, the useRTRQ hook's state and what the server holds for it
    wsClient,
    \* the POST /invalidate request whose body is arriving (SpecBody)
    postReq

vars == <<subscriptions, clientIds, clientRequests, nextClientId, conn,
          subscribed, last, mk, wsClient, postReq>>

serverVars == <<subscriptions, clientIds, clientRequests, nextClientId, conn,
                subscribed, last>>

\* "unknown", the client id reported for a handle that is not tracked
Unknown == 0

\* close code of an abnormal closure, synthesized by removeDeadClient
AbnormalClosure == 1006

\* the close code the transport delivers (normal closure)
CloseCodes == {1000}

(***************************************************************************)
(* Keys used by the clients and by the callers of invalidateQuery          *)
(***************************************************************************)
SubKeys == { <<StrPost, Num12>>, <<StrPost, ArrA1>> }

InvKeys == { <<>>, <<StrPost>>, <<StrPost, Num12>>, <<StrPost, ArrA2>>,
             <<StrUser>>, <<StrPost, Num12, StrUser>> }

(***************************************************************************)
(* Events                                                                  *)
(***************************************************************************)
Event(type, key, clientId, n, matchedKeys, total, code, removed, subs, ids) ==
    [type |-> type, key |-> key, clientId |-> clientId, n |-> n,
     matchedKeys |-> matchedKeys, totalSubscriptions |-> total,
     code |-> code, removedSubscriptions |-> removed,
     snap |-> subs, tracked |-> DOMAIN ids]

NoSent == [c \in Conns |-> 0]

\* one thing a handler does: an emit, the key scan, or a send to a handle
Step(op, ws) == [op |-> op, ws |-> ws]

Last(kind, ws, key, events) ==
    [kind |-> kind, ws |-> ws, key |-> key, events |-> events,
     status |-> 0, isAllowed |-> TRUE, denied |-> FALSE, invoked |-> 0,
     prevented |-> FALSE, threw |-> FALSE, sent |-> NoSent,
     errors |-> 0, failed |-> {},
     \* the before:* listeners registered when the handler ran, whether the
     \* first of them calls deny(), and what emitting the hook to them gives
     registered |-> 0, firstDenied |-> FALSE, verdict |-> TRUE,
     \* what the call returned to its caller, and whether it changed the
     \* registry
     returned |-> "none", changed |-> FALSE,
     \* the server was created with a non-empty allowedIps and the request's
     \* x-forwarded-for address is missing or not in it
     unlisted |-> FALSE,
     \* what the handler did, in the order it did it
     steps |-> <<>>]

clientIdOf(ids, ws) == IF ws \in DOMAIN ids THEN ids[ws] ELSE Unknown

(***************************************************************************)
(* The purge loop shared by the close handler and removeDeadClient:        *)
(*   for (const [key, clients] of this.subscriptions.entries())            *)
(*     if (clients.has(ws)) { clients.delete(ws);                          *)
(*       if (clients.size === 0) this.subscriptions.delete(key);           *)
(*       removedSubscriptions.push(JSON.parse(key)); }                     *)
(***************************************************************************)
RECURSIVE purgeLoop(_, _, _, _)
purgeLoop(subs, removed, keys, ws) ==
    IF keys = <<>> THEN [subs |-> subs, removed |-> removed]
    ELSE LET key == Head(keys)
             clients == subs[key]
         IN IF ws \in clients
            THEN LET rest == clients \ {ws}
                     subs1 == IF Cardinality(rest) = 0
                              THEN Delete(subs, key)
                              ELSE Put(subs, key, rest)
                 IN purgeLoop(subs1, Append(removed, JSONparse(key)),
                              Tail(keys), ws)
            ELSE purgeLoop(subs, removed, Tail(keys), ws)

\* a purge loop that breaks after the first key it removes the handle from
purge_first(subs, ws) ==
    LET mine == {k \in DOMAIN subs : ws \in subs[k]}
    IN IF mine = {} THEN purgeLoop(subs, <<>>, <<>>, ws)
       ELSE purgeLoop(subs, <<>>, <<CHOOSE k \in mine : TRUE>>, ws)

\* a purge loop that reports every registered key as removed
purge_reportAll(subs, ws) ==
    [subs |-> purgeLoop(subs, <<>>, SetToSeq(DOMAIN subs), ws).subs,
     removed |-> [i \in 1..Cardinality(DOMAIN subs) |->
                    JSONparse(SetToSeq(DOMAIN subs)[i])]]

\* a purge loop that deletes every key the handle is subscribed to, with
\* the other subscribers of the key
purge_wholeKey(subs, ws) ==
    LET mine == {k \in DOMAIN subs : ws \in subs[k]}
    IN [subs |-> [k \in (DOMAIN subs) \ mine |-> subs[k]],
        removed |-> purgeLoop(subs, <<>>, SetToSeq(DOMAIN subs), ws).removed]

purge(subs, ws) ==
    purgeLoop(subs, <<>>, SetToSeq(DOMAIN subs), ws)

(***************************************************************************)
(* removeDeadClient(client), on the server state st =                      *)
(* [subs, ids, reqs, events, ...]                                          *)
(***************************************************************************)
\* removeDeadClient that leaves the handle in clientIds and clientRequests
removeDeadClient_keepTracking(st, client) ==
    LET clientId == clientIdOf(st.ids, client)
        p == purge(st.subs, client)
        ev == Event("client:disconnect", <<>>, clientId,
                    Cardinality(DOMAIN st.ids), <<>>, 0, AbnormalClosure,
                    p.removed, p.subs, st.ids)
    IN [st EXCEPT !.subs = p.subs,
                  !.events = Append(st.events, ev),
                  !.steps = Append(st.steps,
                                   Step("client:disconnect", client)),
                  !.failed = st.failed \cup {client}]

\* removeDeadClient that forgets the handle and leaves the subscriber sets
removeDeadClient_keepSubscriptions(st, client) ==
    LET clientId == clientIdOf(st.ids, client)
        ids1 == Delete(st.ids, client)
        reqs1 == Delete(st.reqs, client)
        ev == Event("client:disconnect", <<>>, clientId,
                    Cardinality(DOMAIN ids1), <<>>, 0, AbnormalClosure,
                    <<>>, st.subs, ids1)
    IN [st EXCEPT !.ids = ids1, !.reqs = reqs1,
                  !.events = Append(st.events, ev),
                  !.steps = Append(st.steps,
                                   Step("client:disconnect", client)),
                  !.failed = st.failed \cup {client}]

removeDeadClient(st, client) ==
    LET clientId == clientIdOf(st.ids, client)
        p == purge(st.subs, client)
        ids1 == Delete(st.ids, client)
        reqs1 == Delete(st.reqs, client)
        ev == Event("client:disconnect", <<>>, clientId,
                    Cardinality(DOMAIN ids1), <<>>, 0, AbnormalClosure,
                    p.removed, p.subs, ids1)
    IN [st EXCEPT !.subs = p.subs, !.ids = ids1, !.reqs = reqs1,
                  !.events = Append(st.events, ev),
                  !.steps = Append(st.steps,
                                   Step("client:disconnect", client)),
                  !.failed = st.failed \cup {client}]

(***************************************************************************)
(* invalidateQuery(key, request)                                           *)
(***************************************************************************)
\* a scan that takes every registered key as matched
matchScan_all(matchedKeys, subKeys, key) ==
    matchedKeys \o [i \in 1..Len(subKeys) |-> JSONparse(subKeys[i])]

\* a scan that stops at the first registered key that matches
matchScan_first(matchedKeys, subKeys, key) ==
    LET hits == {i \in 1..Len(subKeys) :
                    isKeyMatch(JSONparse(subKeys[i]), key)}
    IN IF hits = {} THEN matchedKeys
       ELSE Append(matchedKeys,
                   JSONparse(subKeys[CHOOSE i \in hits :
                                        \A j \in hits : i <= j]))

\* the matching scan over this.subscriptions.entries()
RECURSIVE matchScan(_, _, _)
matchScan(matchedKeys, subKeys, key) ==
    IF subKeys = <<>> THEN matchedKeys
    ELSE LET subscriptionKey == JSONparse(Head(subKeys))
         IN matchScan(IF isKeyMatch(subscriptionKey, key)
                      THEN Append(matchedKeys, subscriptionKey)
                      ELSE matchedKeys,
                      Tail(subKeys), key)

\* try { client.send(...); notifiedClients++; }
\* catch (error) { this.removeDeadClient(client); }
\* client.send throws for a handle whose peer is gone
trySend(st, client, dead) ==
    IF client \in dead
    THEN removeDeadClient(
             [st EXCEPT !.steps = Append(@, Step("send throws", client))],
             client)
    ELSE [st EXCEPT !.sent[client] = @ + 1, !.notifiedClients = @ + 1,
                    !.steps = Append(@, Step("send", client))]

\* clientsCopy.forEach; an exception that escapes the callback ends the loop
RECURSIVE sendToClients(_, _, _)
sendToClients(st, clientsCopy, dead) ==
    IF clientsCopy = <<>> \/ st.threw THEN st
    ELSE sendToClients(trySend(st, Head(clientsCopy), dead),
                       Tail(clientsCopy), dead)

\* a send loop that takes each matched key's subscribers from the registry as
\* it was when the call began, not from this.subscriptions.get(keyStr) now
RECURSIVE sendLoop_snapshot(_, _, _)
sendLoop_snapshot(st, matchedKeys, dead) ==
    IF matchedKeys = <<>> \/ st.threw THEN st
    ELSE LET keyStr == JSONstringify(Head(matchedKeys))
             st1 == IF keyStr \in DOMAIN subscriptions
                    THEN sendToClients(st, SetToSeq(subscriptions[keyStr]),
                                       dead)
                    ELSE st
         IN sendLoop_snapshot(st1, Tail(matchedKeys), dead)

\* for (const matchedKey of matchedKeys)
RECURSIVE sendLoop(_, _, _)
sendLoop(st, matchedKeys, dead) ==
    IF matchedKeys = <<>> \/ st.threw THEN st
    ELSE LET keyStr == JSONstringify(Head(matchedKeys))
             st1 == IF keyStr \in DOMAIN st.subs
                    THEN sendToClients(st, SetToSeq(st.subs[keyStr]), dead)
                    ELSE st
         IN sendLoop(st1, Tail(matchedKeys), dead)

\* an invalidateQuery that returns at once when no registered key matches
invalidateQuery_skipEmpty(st, key, prevent, dead) ==
    LET matchedKeys == matchScan(<<>>, SetToSeq(DOMAIN st.subs), key)
        before == Event("query:before-invalidate", key, Unknown, 0,
                        matchedKeys, Cardinality(DOMAIN st.subs), 0, <<>>,
                        st.subs, st.ids)
        st1 == [st EXCEPT !.events = Append(st.events, before),
                          !.matchedKeys = matchedKeys,
                          !.steps = st.steps \o
                              <<Step("match", 0),
                                Step("query:before-invalidate", 0)>>]
        st2 == sendLoop(st1, matchedKeys, dead)
        done == Event("query:invalidate", key, Unknown, st2.notifiedClients,
                      matchedKeys, Cardinality(DOMAIN st2.subs), 0, <<>>,
                      st2.subs, st2.ids)
    IN IF matchedKeys = <<>> THEN [st EXCEPT !.returned = "undefined"]
       ELSE IF prevent
       THEN [st1 EXCEPT !.prevented = TRUE, !.returned = "undefined"]
       ELSE [st2 EXCEPT !.events = Append(st2.events, done),
                        !.steps = Append(@, Step("query:invalidate", 0)),
                        !.returned = "undefined"]

\* an invalidateQuery that does not look at shouldPrevent
invalidateQuery_ignorePrevent(st, key, prevent, dead) ==
    LET matchedKeys == matchScan(<<>>, SetToSeq(DOMAIN st.subs), key)
        before == Event("query:before-invalidate", key, Unknown, 0,
                        matchedKeys, Cardinality(DOMAIN st.subs), 0, <<>>,
                        st.subs, st.ids)
        st1 == [st EXCEPT !.events = Append(st.events, before),
                          !.matchedKeys = matchedKeys,
                          !.prevented = prevent,
                          !.steps = st.steps \o
                              <<Step("match", 0),
                                Step("query:before-invalidate", 0)>>]
        st2 == sendLoop(st1, matchedKeys, dead)
        done == Event("query:invalidate", key, Unknown, st2.notifiedClients,
                      matchedKeys, Cardinality(DOMAIN st2.subs), 0, <<>>,
                      st2.subs, st2.ids)
    IN [st2 EXCEPT !.events = Append(st2.events, done),
                   !.steps = Append(@, Step("query:invalidate", 0)),
                   !.returned = "undefined"]

\* an invalidateQuery that notifies the subscribers before it emits
\* query:before-invalidate
invalidateQuery_sendFirst(st, key, prevent, dead) ==
    LET matchedKeys == matchScan(<<>>, SetToSeq(DOMAIN st.subs), key)
        st1 == sendLoop([st EXCEPT !.matchedKeys = matchedKeys,
                                   !.steps = Append(@, Step("match", 0))],
                        matchedKeys, dead)
        before == Event("query:before-invalidate", key, Unknown, 0,
                        matchedKeys, Cardinality(DOMAIN st1.subs), 0, <<>>,
                        st1.subs, st1.ids)
        st2 == [st1 EXCEPT !.events = Append(st1.events, before),
                           !.steps = Append(@,
                               Step("query:before-invalidate", 0))]
        done == Event("query:invalidate", key, Unknown, st2.notifiedClients,
                      matchedKeys, Cardinality(DOMAIN st2.subs), 0, <<>>,
                      st2.subs, st2.ids)
    IN IF prevent
       THEN [st2 EXCEPT !.prevented = TRUE, !.returned = "undefined"]
       ELSE [st2 EXCEPT !.events = Append(st2.events, done),
                        !.steps = Append(@, Step("query:invalidate", 0)),
                        !.returned = "undefined"]

\* prevent: some query:before-invalidate listener calls preventDefault()
invalidateQuery(st, key, prevent, dead) ==
    LET matchedKeys == matchScan(<<>>, SetToSeq(DOMAIN st.subs), key)
        before == Event("query:before-invalidate", key, Unknown, 0,
                        matchedKeys, Cardinality(DOMAIN st.subs), 0, <<>>,
                        st.subs, st.ids)
        st1 == [st EXCEPT !.events = Append(st.events, before),
                          !.matchedKeys = matchedKeys,
                          !.steps = st.steps \o
                              <<Step("match", 0),
                                Step("query:before-invalidate", 0)>>]
    IN IF prevent
       THEN [st1 EXCEPT !.prevented = TRUE, !.returned = "undefined"]
       ELSE LET st2 == sendLoop(st1, matchedKeys, dead)
                done == Event("query:invalidate", key, Unknown,
                              st2.notifiedClients, matchedKeys,
                              Cardinality(DOMAIN st2.subs), 0, <<>>,
                              st2.subs, st2.ids)
            IN IF st2.threw THEN st2
               ELSE [st2 EXCEPT !.events = Append(st2.events, done),
                                !.steps =
                                    Append(@, Step("query:invalidate", 0)),
                                !.returned = "undefined"]

\* the server state a handler starts from
Start ==
    [subs |-> subscriptions, ids |-> clientIds, reqs |-> clientRequests,
     events |-> <<>>, sent |-> NoSent, notifiedClients |-> 0,
     matchedKeys |-> <<>>, prevented |-> FALSE, failed |-> {},
     threw |-> FALSE, returned |-> "none", steps |-> <<>>]

\* the handles a send to which throws
Dead == {c \in Conns : conn[c] = "dead"}

(***************************************************************************)
(* Authorization hooks.  A listener is the sequence of the calls it makes  *)
(* on the event object; emit runs the listeners in registration order.     *)
(***************************************************************************)
HandlerBehaviours ==
    { <<>>, <<"allow">>, <<"deny">>, <<"allow", "deny">>, <<"deny", "allow">> }

HandlerLists ==
    UNION { [1..n -> HandlerBehaviours] : n \in 0..MaxHandlers }

\* allow: () => { isAllowed = true; }   deny: () => { isAllowed = false; }
RECURSIVE runCalls(_, _)
runCalls(isAllowed, calls) ==
    IF calls = <<>> THEN isAllowed
    ELSE runCalls(Head(calls) = "allow", Tail(calls))

\* this.emit("before:connection", event) / this.emit("before:invalidation", event)
RECURSIVE emitHook(_, _)
emitHook(isAllowed, handlers) ==
    IF handlers = <<>> THEN isAllowed
    ELSE emitHook(runCalls(isAllowed, Head(handlers)), Tail(handlers))

SomeDeny(handlers) ==
    \E i \in 1..Len(handlers) : "deny" \in Range(handlers[i])

\* EventEmitter.emit calls every registered listener, in registration order
emitInvoked(handlers) == Len(handlers)

\* the first registered listener calls deny()
FirstDenies(handlers) ==
    handlers # <<>> /\ "deny" \in Range(handlers[1])

(***************************************************************************)
(* Actions                                                                 *)
(***************************************************************************)
TypeOK ==
    /\ nextClientId \in Nat
    /\ DOMAIN clientIds \subseteq Conns
    /\ DOMAIN clientRequests \subseteq Conns
    /\ \A k \in DOMAIN subscriptions : subscriptions[k] \subseteq Conns
    /\ conn \in [Conns -> {"new", "rejected", "upgraded", "open", "dead",
                           "closed"}]

NoMatch == [s |-> <<>>, q |-> <<>>, r |-> FALSE, done |-> FALSE]

\* the WebSocket objects created by WebSocketClient.connect
Sockets == 1..MaxSockets

\* the handler functions passed to WebSocketClient.subscribe
Fns == {1, 2}

\* a WebSocketClient just constructed, in a page where useRTRQ is not
\* mounted yet
\*   ws, reconnectAttempts, eventHandlers : the fields of WebSocketClient;
\*       eventHandlers is the Set object the Map holds for "invalidation"
\*       (0: no entry), sets[i] the content of the i-th Set object created
\*   reconnect, limit : config.options.reconnect, .reconnectAttempts
\*   sock    : readyState of each WebSocket object created ("none": not yet)
\*   timers  : pending setTimeout callbacks of handleReconnect
\*   regs    : the subscribe calls so far, each with its handler and the Set
\*             object its unsubscribe closure captured
\*   mounted, activeQueries, subbedQueries : the useRTRQ hook
\*   held    : the pairs <<socket, key>> the server holds a subscription for
\*   op, threw, calls : the last operation, whether it threw, and how often
\*             it called each handler function
\*   data    : the data of the last MessageEvent
NoClient ==
    [ws |-> 0, reconnectAttempts |-> 0, eventHandlers |-> 0, sets |-> <<>>,
     reconnect |-> FALSE, limit |-> 1,
     sock |-> [s \in Sockets |-> "none"], timers |-> 0, regs |-> <<>>,
     mounted |-> FALSE, activeQueries |-> {}, subbedQueries |-> {},
     held |-> {}, op |-> "init", threw |-> FALSE,
     calls |-> [f \in Fns |-> 0], data |-> ""]

\* this.maxBodySize = options?.maxBodySize || 1024 * 1024
DefaultMaxBodySize == 1024 * 1024

maxBodySizeOf(option) == IF option = 0 THEN DefaultMaxBodySize ELSE option

\* the state of one POST /invalidate request:
\*   maxBodySize : this.maxBodySize of the server that receives it
\*   open, content : the route handler has run; what the whole body is
\*   bodySize, body : the locals of the handler (body as its length)
\*   chunks, isLast : the onData calls so far, and whether one was the last
\*   ends, status : the calls of res.end, and the status of the first
\*   hooks, invalidations : the emits of before:invalidation and the calls
\*                          of invalidateQuery
NoPost ==
    [maxBodySize |-> DefaultMaxBodySize, open |-> FALSE, content |-> "none",
     bodySize |-> 0, body |-> 0, chunks |-> 0, isLast |-> FALSE,
     ends |-> 0, status |-> 0, hooks |-> 0, invalidations |-> 0]

Init ==
    /\ subscriptions = EmptyMap
    /\ clientIds = EmptyMap
    /\ clientRequests = EmptyMap
    /\ nextClientId = 1
    /\ conn = [c \in Conns |-> "new"]
    /\ subscribed = {}
    /\ last = Last("init", 0, <<>>, <<>>)
    /\ mk = NoMatch
    /\ wsClient = NoClient
    /\ postReq = NoPost

\* an upgrade handler without the return after the 403 response
Upgrade_noReturn(ws, handlers) ==
    /\ conn[ws] = "new"
    /\ LET isAllowed == emitHook(TRUE, handlers)
       IN /\ conn' = [conn EXCEPT ![ws] = "upgraded"]
          /\ last' = [Last("upgrade", ws, <<>>, <<>>) EXCEPT
                        !.isAllowed = isAllowed,
                        !.denied = SomeDeny(handlers),
                        !.invoked = emitInvoked(handlers),
                        !.registered = Len(handlers),
                        !.firstDenied = FirstDenies(handlers),
                        !.verdict = isAllowed,
                        !.status = IF isAllowed THEN 101 ELSE 403]
    /\ UNCHANGED <<subscriptions, clientIds, clientRequests, nextClientId,
                   subscribed, mk, wsClient, postReq>>

\* upgrade: (res, req, context) => ...
Upgrade(ws, handlers) ==
    /\ conn[ws] = "new"
    /\ LET isAllowed == emitHook(TRUE, handlers)
       IN /\ conn' = [conn EXCEPT ![ws] = IF isAllowed THEN "upgraded"
                                          ELSE "rejected"]
          /\ last' = [Last("upgrade", ws, <<>>, <<>>) EXCEPT
                        !.isAllowed = isAllowed,
                        !.denied = SomeDeny(handlers),
                        !.invoked = emitInvoked(handlers),
                        !.registered = Len(handlers),
                        !.firstDenied = FirstDenies(handlers),
                        !.verdict = isAllowed,
                        !.status = IF isAllowed THEN 101 ELSE 403]
    /\ UNCHANGED <<subscriptions, clientIds, clientRequests, nextClientId,
                   subscribed, mk, wsClient, postReq>>

\* an open handler that derives the id from the number of tracked handles
Open_sizeId(ws) ==
    /\ conn[ws] = "upgraded"
    /\ LET clientId == Cardinality(DOMAIN clientIds) + 1
           ids1 == Put(clientIds, ws, clientId)
           reqs1 == Put(clientRequests, ws, ws)
       IN /\ nextClientId' = nextClientId + 1
          /\ clientIds' = ids1
          /\ clientRequests' = reqs1
          /\ last' = Last("open", ws, <<>>,
                          << Event("client:connect", <<>>, clientId,
                                   Cardinality(DOMAIN ids1), <<>>, 0, 0,
                                   <<>>, subscriptions, ids1) >>)
    /\ conn' = [conn EXCEPT ![ws] = "open"]
    /\ UNCHANGED <<subscriptions, subscribed, mk, wsClient, postReq>>

\* open: (ws) => ...
Open(ws) ==
    /\ conn[ws] = "upgraded"
    /\ LET clientId == nextClientId
           ids1 == Put(clientIds, ws, clientId)
           reqs1 == Put(clientRequests, ws, ws)
       IN /\ nextClientId' = nextClientId + 1
          /\ clientIds' = ids1
          /\ clientRequests' = reqs1
          /\ last' = Last("open", ws, <<>>,
                          << Event("client:connect", <<>>, clientId,
                                   Cardinality(DOMAIN ids1), <<>>, 0, 0,
                                   <<>>, subscriptions, ids1) >>)
    /\ conn' = [conn EXCEPT ![ws] = "open"]
    /\ UNCHANGED <<subscriptions, subscribed, mk, wsClient, postReq>>

\* the identity of a key up to deep equality
DeepClass(key) == [i \in 1..Len(key) |-> [t |-> key[i].t, v |-> key[i].v]]

\* a subscription that is honoured only for a key not yet registered
subscriptionCase_onlyNew(subs, ws, payloadKey) ==
    LET key == JSONstringify(payloadKey)
    IN IF key \notin DOMAIN subs THEN Put(subs, key, {ws}) ELSE subs

\* a subscription case in which a second subscription of the same handle to
\* the same key takes the handle out of the set again
subscriptionCase_toggle(subs, ws, payloadKey) ==
    LET key == JSONstringify(payloadKey)
        subs1 == IF key \notin DOMAIN subs THEN Put(subs, key, {}) ELSE subs
    IN IF ws \in subs1[key]
       THEN Put(subs1, key, subs1[key] \ {ws})
       ELSE Put(subs1, key, subs1[key] \cup {ws})

\* message: case "subscription"
subscriptionCase(subs, ws, payloadKey) ==
    LET key == JSONstringify(payloadKey)
        subs1 == IF key \notin DOMAIN subs THEN Put(subs, key, {}) ELSE subs
    IN Put(subs1, key, subs1[key] \cup {ws})

\* an unsubscription that does not remove the handle
unsubscriptionCase_keep(subs, ws, payloadKey) ==
    LET key == JSONstringify(payloadKey)
    IN [subs |-> subs,
        remainingSubscribers |->
            IF key \in DOMAIN subs THEN Cardinality(subs[key]) ELSE 0]

\* an unsubscription that leaves the emptied set in the Map
unsubscriptionCase_noGC(subs, ws, payloadKey) ==
    LET key == JSONstringify(payloadKey)
        subs1 == IF key \in DOMAIN subs
                 THEN Put(subs, key, subs[key] \ {ws})
                 ELSE subs
    IN [subs |-> subs1,
        remainingSubscribers |->
            IF key \in DOMAIN subs1 THEN Cardinality(subs1[key]) ELSE 0]

\* an unsubscription that drops the key's whole subscriber set
unsubscriptionCase_dropKey(subs, ws, payloadKey) ==
    LET key == JSONstringify(payloadKey)
    IN [subs |-> Delete(subs, key), remainingSubscribers |-> 0]

\* an unsubscription that reads the size before it deletes the handle
unsubscriptionCase_countBefore(subs, ws, payloadKey) ==
    LET key == JSONstringify(payloadKey)
        remainingSubscribers ==
            IF key \in DOMAIN subs THEN Cardinality(subs[key]) ELSE 0
        subs1 == IF key \in DOMAIN subs
                 THEN Put(subs, key, subs[key] \ {ws})
                 ELSE subs
    IN [subs |-> IF key \in DOMAIN subs1 /\ subs1[key] = {}
                 THEN Delete(subs1, key) ELSE subs1,
        remainingSubscribers |-> remainingSubscribers]

\* message: case "unsubscription"
unsubscriptionCase(subs, ws, payloadKey) ==
    LET key == JSONstringify(payloadKey)
        subs1 == IF key \in DOMAIN subs
                 THEN Put(subs, key, subs[key] \ {ws})
                 ELSE subs
        remainingSubscribers ==
            IF key \in DOMAIN subs1 THEN Cardinality(subs1[key]) ELSE 0
    IN [subs |-> IF remainingSubscribers = 0 THEN Delete(subs1, key)
                 ELSE subs1,
        remainingSubscribers |-> remainingSubscribers]

\* message: (ws, message) => ... with a packet that passes JSON.parse,
\* versionCheck and validateServerPacket
\* thrower: the emit whose listener throws ("none", "query" for
\* query:subscribe or query:unsubscribe, "client:message"); the exception
\* leaves emit and the try block, and the catch block replies with an error
MessageWith(ws, type, payloadKey, thrower) ==
    /\ conn[ws] = "open"
    /\ type \in {"subscription", "unsubscription"}
    /\ LET key == JSONstringify(payloadKey)
           clientId == clientIdOf(clientIds, ws)
       IN IF type = "subscription"
          THEN LET subs1 == subscriptionCase(subscriptions, ws, payloadKey)
               IN /\ subscriptions' = subs1
                  /\ subscribed' = subscribed \cup {<<ws, DeepClass(payloadKey)>>}
                  /\ last' = [Last(type, ws, payloadKey,
                        << Event("query:subscribe", payloadKey, clientId,
                                 IF key \in DOMAIN subs1
                                 THEN Cardinality(subs1[key]) ELSE 0,
                                 <<>>, 0, 0, <<>>, subs1, clientIds),
                           Event("client:message", payloadKey, clientId, 0,
                                 <<>>, 0, 0, <<>>, subs1, clientIds) >>)
                        EXCEPT !.changed = (subs1 # subscriptions),
                               !.events = IF thrower = "query" THEN <<@[1]>>
                                          ELSE @,
                               !.errors = IF thrower = "none" THEN 0 ELSE 1]
          ELSE LET u == unsubscriptionCase(subscriptions, ws, payloadKey)
               IN /\ subscriptions' = u.subs
                  /\ subscribed' = subscribed \ {<<ws, DeepClass(payloadKey)>>}
                  /\ last' = [Last(type, ws, payloadKey,
                        << Event("query:unsubscribe", payloadKey, clientId,
                                 u.remainingSubscribers,
                                 <<>>, 0, 0, <<>>, u.subs, clientIds),
                           Event("client:message", payloadKey, clientId, 0,
                                 <<>>, 0, 0, <<>>, u.subs, clientIds) >>)
                        EXCEPT !.changed = (u.subs # subscriptions),
                               !.events = IF thrower = "query" THEN <<@[1]>>
                                          ELSE @,
                               !.errors = IF thrower = "none" THEN 0 ELSE 1]
    /\ UNCHANGED <<clientIds, clientRequests, nextClientId, conn, mk, wsClient, postReq>>

\* a message handled with listeners that return
Message(ws, type, payloadKey) ==
    MessageWith(ws, type, payloadKey, "none")

\* message: (ws, message) => ... with a packet on which JSON.parse or
\* validateServerPacket throws: the catch block replies with an error
BadMessage(ws) ==
    /\ conn[ws] = "open"
    /\ last' = [Last("badmessage", ws, <<>>, <<>>) EXCEPT !.errors = 1]
    /\ UNCHANGED <<subscriptions, clientIds, clientRequests, nextClientId,
                   conn, subscribed, mk, wsClient, postReq>>

\* a close handler that reads clientIds.size before it deletes the handle
Close_countBefore(ws, code) ==
    /\ conn[ws] \in {"open", "dead"}
    /\ LET clientId == clientIdOf(clientIds, ws)
           p == purge(subscriptions, ws)
           ids1 == Delete(clientIds, ws)
           reqs1 == Delete(clientRequests, ws)
       IN /\ subscriptions' = p.subs
          /\ clientIds' = ids1
          /\ clientRequests' = reqs1
          /\ last' = [Last("close", ws, <<>>,
                          << Event("client:disconnect", <<>>, clientId,
                                   Cardinality(DOMAIN clientIds), <<>>, 0,
                                   code, p.removed, p.subs, ids1) >>)
                       EXCEPT !.changed = (p.subs # subscriptions)]
    /\ subscribed' = {x \in subscribed : x[1] # ws}
    /\ conn' = [conn EXCEPT ![ws] = "closed"]
    /\ UNCHANGED <<nextClientId, mk, wsClient, postReq>>

\* close: (ws, code, message) => ...
Close(ws, code) ==
    /\ conn[ws] \in {"open", "dead"}
    /\ LET clientId == clientIdOf(clientIds, ws)
           p == purge(subscriptions, ws)
           ids1 == Delete(clientIds, ws)
           reqs1 == Delete(clientRequests, ws)
       IN /\ subscriptions' = p.subs
          /\ clientIds' = ids1
          /\ clientRequests' = reqs1
          /\ last' = [Last("close", ws, <<>>,
                          << Event("client:disconnect", <<>>, clientId,
                                   Cardinality(DOMAIN ids1), <<>>, 0, code,
                                   p.removed, p.subs, ids1) >>)
                       EXCEPT !.changed = (p.subs # subscriptions)]
    /\ subscribed' = {x \in subscribed : x[1] # ws}
    /\ conn' = [conn EXCEPT ![ws] = "closed"]
    /\ UNCHANGED <<nextClientId, mk, wsClient, postReq>>

\* the peer of an open connection goes away: from now on ws.send throws
Die(ws) ==
    /\ conn[ws] = "open"
    /\ conn' = [conn EXCEPT ![ws] = "dead"]
    /\ last' = Last("die", ws, <<>>, <<>>)
    /\ UNCHANGED <<subscriptions, clientIds, clientRequests, nextClientId,
                   subscribed, mk, wsClient, postReq>>

\* the result of invalidateQuery written back to the state; handlers are the
\* registered before:invalidation listeners, emitted: whether the entry point
\* emits before:invalidation to them
Dispatched(kind, key, st, status, handlers, emitted, unlisted) ==
    /\ subscriptions' = st.subs
    /\ clientIds' = st.ids
    /\ clientRequests' = st.reqs
    /\ subscribed' = {x \in subscribed : x[1] \notin st.failed}
    /\ last' = [Last(kind, 0, key, st.events) EXCEPT
                  !.sent = st.sent, !.prevented = st.prevented,
                  !.failed = st.failed, !.threw = st.threw,
                  !.status = IF st.threw /\ status = 200 THEN 500
                             ELSE status,
                  !.isAllowed = IF emitted THEN emitHook(TRUE, handlers)
                                ELSE TRUE,
                  !.denied = emitted /\ SomeDeny(handlers),
                  !.invoked = IF emitted THEN emitInvoked(handlers) ELSE 0,
                  !.registered = Len(handlers),
                  !.firstDenied = FirstDenies(handlers),
                  !.verdict = emitHook(TRUE, handlers),
                  !.returned = st.returned,
                  !.changed = (st.subs # subscriptions),
                  !.unlisted = unlisted,
                  !.steps = st.steps]

\* a direct call server.invalidateQuery(key) on a server with the given
\* before:invalidation listeners registered: invalidateQuery emits only
\* query:before-invalidate
InvalidateWith(key, handlers, prevent) ==
    /\ Dispatched("invalidate", key,
                  invalidateQuery(Start, key, prevent, Dead), 0, handlers,
                  FALSE, FALSE)
    /\ UNCHANGED <<nextClientId, conn, mk, wsClient, postReq>>

\* a direct call server.invalidateQuery(key), no before:invalidation listener
Invalidate(key, prevent) ==
    InvalidateWith(key, <<>>, prevent)

\* the handler's state after this.emit(hook, ...) has returned
Emitted(st, hook) == [st EXCEPT !.steps = Append(@, Step(hook, 0))]

\* a POST /invalidate that answers 202 when the invalidation was prevented
PostInvalidate_reportSuppressed(key, handlers, prevent) ==
    /\ LET isAllowed == emitHook(TRUE, handlers)
       IN IF ~isAllowed
          THEN Dispatched("post", key, Emitted(Start, "before:invalidation"),
                          403, handlers, TRUE, FALSE)
          ELSE Dispatched("post", key,
                          invalidateQuery(
                              Emitted(Start, "before:invalidation"),
                              key, prevent, Dead),
                          IF prevent THEN 202 ELSE 200, handlers, TRUE,
                          FALSE)
    /\ UNCHANGED <<nextClientId, conn, mk, wsClient, postReq>>

\* the x-forwarded-for header of a request; getHeader gives "" when the
\* header is missing
NoIp == ""
ListedIp == "192.168.1.1"
OtherIp == "127.0.0.1"

\* the allowedIps option passed to the constructor
AllowedIpsOptions == { {}, {ListedIp} }

\* POST /invalidate, with a body that parses to { key }, from clientIp to a
\* server created with new RTRQServer({ allowedIps }): the constructor reads
\* appOptions and maxBodySize only, and the handler goes from the body to
\* before:invalidation, then invalidateQuery, then 200
handleBody(allowedIps, clientIp, key, handlers, prevent) ==
    /\ LET isAllowed == emitHook(TRUE, handlers)
           unlisted == allowedIps # {} /\ clientIp \notin allowedIps
       IN IF ~isAllowed
          THEN Dispatched("post", key, Emitted(Start, "before:invalidation"),
                          403, handlers, TRUE, unlisted)
          ELSE Dispatched("post", key,
                          invalidateQuery(
                              Emitted(Start, "before:invalidation"),
                              key, prevent, Dead), 200,
                          handlers, TRUE, unlisted)
    /\ UNCHANGED <<nextClientId, conn, mk, wsClient>>

\* a request whose body arrives within the limit and parses to { key }
PostInvalidateFrom(allowedIps, clientIp, key, handlers, prevent) ==
    /\ handleBody(allowedIps, clientIp, key, handlers, prevent)
    /\ UNCHANGED postReq

\* POST /invalidate to a server created without allowedIps
PostInvalidate(key, handlers, prevent) ==
    PostInvalidateFrom({}, NoIp, key, handlers, prevent)

Next ==
    \/ \E ws \in Conns, handlers \in HandlerLists : Upgrade(ws, handlers)
    \/ \E ws \in Conns : Open(ws)
    \/ \E ws \in Conns, type \in {"subscription", "unsubscription"},
          key \in SubKeys : Message(ws, type, key)
    \/ \E ws \in Conns : BadMessage(ws)
    \/ \E ws \in Conns, code \in CloseCodes : Close(ws, code)
    \/ \E ws \in Conns : Die(ws)
    \/ \E key \in InvKeys, prevent \in BOOLEAN : Invalidate(key, prevent)

Spec == Init /\ [][Next]_vars

(***************************************************************************)
(* The HTTP side: POST /invalidate against a server on which every handle  *)
(* has been upgraded and opened, in order, with no listener denying.       *)
(***************************************************************************)
InitHttp ==
    /\ subscriptions = EmptyMap
    /\ clientIds = [c \in Conns |-> c]
    /\ clientRequests = [c \in Conns |-> c]
    /\ nextClientId = NumConns + 1
    /\ conn = [c \in Conns |-> "open"]
    /\ subscribed = {}
    /\ last = Last("init", 0, <<>>, <<>>)
    /\ mk = NoMatch
    /\ wsClient = NoClient
    /\ postReq = NoPost

\* the keys invalidated on the HTTP side: a prefix of every subscription
\* key, one subscription key, and a key that matches none
HttpKeys == { <<StrPost>>, <<StrPost, Num12>>, <<StrUser>> }

NextHttp ==
    \/ \E ws \in Conns, type \in {"subscription", "unsubscription"},
          key \in SubKeys : Message(ws, type, key)
    \/ \E key \in HttpKeys, handlers \in HandlerLists, prevent \in BOOLEAN :
          PostInvalidate(key, handlers, prevent)
    \/ \E key \in HttpKeys, handlers \in HandlerLists, prevent \in BOOLEAN :
          InvalidateWith(key, handlers, prevent)
    \/ \E allowedIps \in AllowedIpsOptions, clientIp \in {NoIp, ListedIp, OtherIp},
          key \in HttpKeys, handlers \in HandlerLists, prevent \in BOOLEAN :
          /\ Len(handlers) <= 1
          /\ PostInvalidateFrom(allowedIps, clientIp, key, handlers, prevent)

SpecHttp == InitHttp /\ [][NextHttp]_vars

(***************************************************************************)
(* The outcome of an invalidation as its caller sees it: both entry points *)
(* on a server with open handles, some of which go away, and at most one   *)
(* before:invalidation listener.                                           *)
(***************************************************************************)
NextOutcome ==
    \/ \E ws \in Conns, type \in {"subscription", "unsubscription"},
          key \in SubKeys : Message(ws, type, key)
    \/ \E ws \in Conns : Die(ws)
    \/ \E key \in HttpKeys, handlers \in HandlerLists, prevent \in BOOLEAN :
          Len(handlers) <= 1 /\ PostInvalidate(key, handlers, prevent)
    \/ \E key \in HttpKeys, prevent \in BOOLEAN : Invalidate(key, prevent)

SpecOutcome == InitHttp /\ [][NextOutcome]_vars

(***************************************************************************)
(* The operations that change the registry, on a server with open handles: *)
(* subscriptions, unsubscriptions, closes, and invalidations with handles  *)
(* whose peer is gone.                                                     *)
(***************************************************************************)
NextRegistry ==
    \/ \E ws \in Conns, type \in {"subscription", "unsubscription"},
          key \in SubKeys : Message(ws, type, key)
    \/ \E ws \in Conns, code \in CloseCodes : Close(ws, code)
    \/ \E ws \in Conns : Die(ws)
    \/ \E key \in HttpKeys, prevent \in BOOLEAN : Invalidate(key, prevent)

SpecRegistry == InitHttp /\ [][NextRegistry]_vars

(***************************************************************************)
(* The message handler with its error path: packets that fail parsing or   *)
(* validation, and listeners that throw.                                   *)
(***************************************************************************)
Throwers == {"none", "query", "client:message"}

NextError ==
    \/ \E ws \in Conns, type \in {"subscription", "unsubscription"},
          key \in SubKeys, thrower \in Throwers :
          MessageWith(ws, type, key, thrower)
    \/ \E ws \in Conns : BadMessage(ws)

SpecError == InitHttp /\ [][NextError]_vars

(***************************************************************************)
(* The body of a POST /invalidate: this.app.post("/invalidate", ...) sets  *)
(* bodySize and body and registers res.onData, which uWebSockets.js calls  *)
(* once for each chunk of the body.                                        *)
(***************************************************************************)
\* the maxBodySize option: not given (or 0), or a number of bytes
MaxBodySizeOptions == {0, 3}

\* chunk.byteLength: an empty chunk, small chunks, and a chunk one byte
\* short of the default limit
ChunkSizes == {0, 1, 2, DefaultMaxBodySize - 1}

\* what the whole body is: JSON that validates as { key }, JSON that does
\* not, or text on which JSON.parse throws
Contents == {"key", "invalid", "unparsable"}

\* the route handler runs for a new request
PostRequest(content) ==
    /\ ~postReq.open \/ postReq.isLast \/ postReq.status # 0
    /\ postReq' = [NoPost EXCEPT !.maxBodySize = postReq.maxBodySize,
                                 !.open = TRUE, !.content = content]
    /\ last' = Last("request", 0, <<>>, <<>>)
    /\ UNCHANGED <<subscriptions, clientIds, clientRequests, nextClientId,
                   conn, subscribed, mk, wsClient>>

\* an onData that lets a body through whatever its size
OnData_noLimit(size, isLast, key, handlers, prevent) ==
    LET r == [postReq EXCEPT !.bodySize = @ + size, !.body = @ + size,
                             !.chunks = @ + 1, !.isLast = isLast]
    IN /\ postReq.open /\ ~postReq.isLast /\ postReq.chunks < MaxChunks
       /\ IF isLast /\ postReq.content = "key"
          THEN /\ handleBody({}, NoIp, key, handlers, prevent)
               /\ postReq' = [r EXCEPT !.ends = @ + 1,
                                 !.status = last'.status, !.hooks = @ + 1,
                                 !.invalidations = 1]
          ELSE /\ postReq' = r
               /\ last' = Last("data", 0, <<>>, <<>>)
               /\ UNCHANGED <<subscriptions, clientIds, clientRequests,
                              nextClientId, conn, subscribed, mk, wsClient>>

\* res.onData((chunk, isLast) => ...)
OnData(size, isLast, key, handlers, prevent) ==
    LET r == [postReq EXCEPT !.bodySize = @ + size, !.chunks = @ + 1,
                             !.isLast = isLast]
        answer(q, status) ==
            [q EXCEPT !.ends = @ + 1,
                      !.status = IF @ = 0 THEN status ELSE @]
        quiet == /\ UNCHANGED <<subscriptions, clientIds, clientRequests,
                                nextClientId, conn, subscribed, mk,
                                wsClient>>
    IN /\ postReq.open /\ ~postReq.isLast /\ postReq.chunks < MaxChunks
       /\ IF r.bodySize > postReq.maxBodySize
          THEN /\ postReq' = answer(r, 413)
               /\ last' = [Last("data", 0, <<>>, <<>>) EXCEPT !.status = 413]
               /\ quiet
          ELSE LET r1 == [r EXCEPT !.body = @ + size]
               IN IF ~isLast
                  THEN /\ postReq' = r1
                       /\ last' = Last("data", 0, <<>>, <<>>)
                       /\ quiet
                  ELSE IF postReq.content = "unparsable"
                  THEN /\ postReq' = answer(r1, 500)
                       /\ last' = [Last("data", 0, <<>>, <<>>)
                                     EXCEPT !.status = 500]
                       /\ quiet
                  ELSE IF postReq.content = "invalid"
                  THEN /\ postReq' = answer(r1, 400)
                       /\ last' = [Last("data", 0, <<>>, <<>>)
                                     EXCEPT !.status = 400]
                       /\ quiet
                  ELSE /\ handleBody({}, NoIp, key, handlers, prevent)
                       /\ postReq' =
                             [answer(r1, last'.status) EXCEPT
                                 !.hooks = @ + 1,
                                 !.invalidations =
                                     IF last'.status = 403 THEN @ ELSE @ + 1]

InitBody ==
    /\ subscriptions = EmptyMap
    /\ clientIds = [c \in Conns |-> c]
    /\ clientRequests = [c \in Conns |-> c]
    /\ nextClientId = NumConns + 1
    /\ conn = [c \in Conns |-> "open"]
    /\ subscribed = {}
    /\ last = Last("init", 0, <<>>, <<>>)
    /\ mk = NoMatch
    /\ wsClient = NoClient
    /\ postReq \in {[NoPost EXCEPT !.maxBodySize = maxBodySizeOf(option)] :
                       option \in MaxBodySizeOptions}

NextBody ==
    \/ \E content \in Contents : PostRequest(content)
    \/ \E size \in ChunkSizes, isLast \in BOOLEAN, key \in {<<StrPost>>},
          handlers \in HandlerLists, prevent \in BOOLEAN :
          Len(handlers) <= 1 /\ OnData(size, isLast, key, handlers, prevent)
    \/ \E ws \in Conns : Message(ws, "subscription", <<StrPost, Num12>>)

SpecBody == InitBody /\ [][NextBody]_vars

(***************************************************************************)
(* The matcher alone: isKeyMatch applied to every pair of keys of at most  *)
(* MaxKeyLen elements.                                                     *)
(***************************************************************************)
MatchElems == { StrPost, Str12, Num12, BoolTrue, Null, ArrA1, ArrA2, ArrB }

MatchKeys == UNION { [1..n -> MatchElems] : n \in 0..MaxKeyLen }

InitMatch ==
    /\ subscriptions = EmptyMap
    /\ clientIds = EmptyMap
    /\ clientRequests = EmptyMap
    /\ nextClientId = 1
    /\ conn = [c \in Conns |-> "new"]
    /\ subscribed = {}
    /\ last = Last("init", 0, <<>>, <<>>)
    /\ mk \in [s : MatchKeys, q : MatchKeys, r : {FALSE}, done : {FALSE}]
    /\ wsClient = NoClient
    /\ postReq = NoPost

Match ==
    /\ ~mk.done
    /\ mk' = [mk EXCEPT !.r = isKeyMatch(mk.s, mk.q), !.done = TRUE]
    /\ UNCHANGED <<serverVars, wsClient, postReq>>

NextMatch == Match

SpecMatch == InitMatch /\ [][NextMatch]_vars

(***************************************************************************)
(* Canonical keys: subscriptions and unsubscriptions with keys that differ *)
(* in the type of an element, or only in the field order of a nested       *)
(* object.                                                                 *)
(***************************************************************************)
CanonKeys == { <<StrPost, Num12>>, <<StrPost, Str12>>, <<StrPost, ObjAB>>,
               <<StrPost, ObjBA>> }

NextCanon ==
    \E ws \in Conns, type \in {"subscription", "unsubscription"},
       key \in CanonKeys : Message(ws, type, key)

SpecCanon == InitHttp /\ [][NextCanon]_vars

(***************************************************************************)
(* The browser side: WebSocketClient (packages/core/src/client.ts) and the *)
(* useRTRQ hook (packages/adapters/react-query/src/useRTRQ.ts).  Each      *)
(* callback and each effect runs to completion.  The server is seen        *)
(* through `held`: it holds what the sockets delivered to it, and drops a  *)
(* socket's subscriptions when the socket closes.                          *)
(***************************************************************************)
\* config.options.reconnectAttempts
ReconnectAttemptsOptions == {1, 2}

\* the query keys of the page
QueryKeys == SubKeys

CanConnect(c) == \E s \in Sockets : c.sock[s] = "none"

\* connect(): this.ws = new WebSocket(url), with its four callbacks
connect(c) ==
    LET s == CHOOSE t \in Sockets :
                 c.sock[t] = "none" /\ \A u \in 1..(t - 1) : c.sock[u] # "none"
    IN [c EXCEPT !.ws = s, !.sock[s] = "connecting"]

\* handleReconnect(): schedules one attempt while attempts are left
handleReconnect(c) ==
    IF c.reconnectAttempts < c.limit THEN [c EXCEPT !.timers = @ + 1] ELSE c

\* disconnect(): if (this.ws) { this.ws.close(); this.ws = null; }
disconnect(c) ==
    IF c.ws = 0 THEN c
    ELSE [c EXCEPT !.sock[c.ws] = IF @ \in {"connecting", "open"}
                                  THEN "closing" ELSE @,
                   !.ws = 0]

\* the start of an operation on the client
Op(c, name) ==
    [c EXCEPT !.op = name, !.threw = FALSE, !.calls = [f \in Fns |-> 0]]

\* useRTRQ, first effect: getWebSocketClient(options).connect()
Mount ==
    /\ ~wsClient.mounted /\ CanConnect(wsClient)
    /\ wsClient' = [connect(Op(wsClient, "mount")) EXCEPT
                      !.mounted = TRUE, !.activeQueries = {},
                      !.subbedQueries = {}]
    /\ UNCHANGED <<serverVars, mk, postReq>>

\* useRTRQ, cleanup of the first effect: ws.current?.disconnect()
Unmount ==
    /\ wsClient.mounted
    /\ wsClient' = [disconnect(Op(wsClient, "unmount")) EXCEPT
                      !.mounted = FALSE]
    /\ UNCHANGED <<serverVars, mk, postReq>>

\* this.ws.onopen = () => { this.reconnectAttempts = 0; resolve(); }
SocketOpen(s) ==
    /\ wsClient.sock[s] = "connecting"
    /\ wsClient' = [Op(wsClient, "onopen") EXCEPT
                      !.sock[s] = "open", !.reconnectAttempts = 0]
    /\ UNCHANGED <<serverVars, mk, postReq>>

\* the socket closes, by a loss of the connection or after close():
\* this.ws.onclose = () => { if (reconnect) this.handleReconnect(); }
\* and the server's close handler drops what it held for the socket
SocketClose(s) ==
    /\ wsClient.sock[s] \in {"connecting", "open", "closing"}
    /\ LET c1 == [Op(wsClient, "onclose") EXCEPT
                    !.sock[s] = "closed",
                    !.held = {x \in @ : x[1] # s}]
       IN wsClient' = IF c1.reconnect THEN handleReconnect(c1) ELSE c1
    /\ UNCHANGED <<serverVars, mk, postReq>>

\* send(type, payload), as the server sees it: throws unless this.ws is an
\* open socket; the server applies the packets in the order they were sent
CanSend(c) == c.ws # 0 /\ c.sock[c.ws] = "open"

\* useRTRQ, second and third effect: a query cache event sets activeQueries
\* to the keys of the queries that have observers, and the effect on
\* [activeQueries, subbedQueries] sends the difference
CacheEvent(active) ==
    /\ wsClient.mounted
    /\ LET c == [Op(wsClient, "cache") EXCEPT !.activeQueries = active]
           addedQueries == active \ c.subbedQueries
           removedQueries == c.subbedQueries \ active
       IN wsClient' =
            IF active = c.subbedQueries THEN c
            ELSE IF ~CanSend(c) THEN [c EXCEPT !.threw = TRUE]
            ELSE [c EXCEPT
                    !.held = (@ \ {<<c.ws, q>> : q \in removedQueries})
                                \cup {<<c.ws, q>> : q \in addedQueries},
                    !.subbedQueries = active]
    /\ UNCHANGED <<serverVars, mk, postReq>>

\* subscribe(eventType, handler) for eventType "invalidation"
Subscribe(f) ==
    /\ Len(wsClient.regs) < MaxRegs
    /\ LET c == Op(wsClient, "subscribe")
           c1 == IF c.eventHandlers = 0
                 THEN [c EXCEPT !.sets = Append(@, {}),
                                !.eventHandlers = Len(c.sets) + 1]
                 ELSE c
           handlers == c1.eventHandlers
       IN wsClient' = [c1 EXCEPT
                         !.sets[handlers] = @ \cup {f},
                         !.regs = Append(@, [fn |-> f, set |-> handlers,
                                             unsubscribed |-> 0])]
    /\ UNCHANGED <<serverVars, mk, postReq>>

\* the unsubscribe() returned by the r-th subscribe call:
\*   handlers.delete(handler);
\*   if (handlers.size === 0) this.eventHandlers.delete(eventType);
Unsubscribe(r) ==
    /\ r \in 1..Len(wsClient.regs)
    /\ wsClient.regs[r].unsubscribed < 2
    /\ LET c == Op(wsClient, "unsubscribe")
           handlers == c.regs[r].set
           rest == c.sets[handlers] \ {c.regs[r].fn}
       IN wsClient' = [c EXCEPT
                         !.sets[handlers] = rest,
                         !.eventHandlers = IF rest = {} THEN 0 ELSE @,
                         !.regs[r].unsubscribed = @ + 1]
    /\ UNCHANGED <<serverVars, mk, postReq>>

\* what the server sends: JSON.stringify(invalidationPacket), and a text
\* that is no packet
PacketText == "{type:invalidation,source:rtrq-server,payload:{key}}"
MessageData == { PacketText, "invalid json" }

\* new MessageEvent("message", { data }): the object onmessage is given
MessageEvent(data) ==
    [type |-> "message", source |-> "undefined", payload |-> "undefined",
     data |-> data]

\* validateClientPacket(packet): v.parse(clientPacketValidator, packet)
\* accepts an object whose type is "invalidation", whose source is
\* "rtrq-server" and that has a payload
validateClientPacket(packet) ==
    /\ packet.type = "invalidation"
    /\ packet.source = "rtrq-server"
    /\ packet.payload # "undefined"

\* this.ws.onmessage = (event) => { this.handleEvent(event); }
\* handleEvent(message): validateClientPacket(message) or return; then every
\* handler of this.eventHandlers.get(packet.type) is called
HandleEvent(s, data) ==
    /\ wsClient.sock[s] = "open"
    /\ LET c == [Op(wsClient, "onmessage") EXCEPT !.data = data]
           message == MessageEvent(data)
       IN wsClient' =
            IF ~validateClientPacket(message) THEN c
            ELSE IF c.eventHandlers = 0 THEN c
            ELSE [c EXCEPT !.calls =
                    [f \in Fns |-> IF f \in c.sets[c.eventHandlers]
                                   THEN 1 ELSE 0]]
    /\ UNCHANGED <<serverVars, mk, postReq>>

\* setTimeout(() => { this.reconnectAttempts++; this.connect(); }, ...)
ReconnectTimer ==
    /\ wsClient.timers > 0 /\ CanConnect(wsClient)
    /\ wsClient' = connect([Op(wsClient, "timer") EXCEPT
                              !.timers = @ - 1,
                              !.reconnectAttempts = @ + 1])
    /\ UNCHANGED <<serverVars, mk, postReq>>

\* a page with a WebSocketClient constructed from some config
InitClient ==
    /\ subscriptions = EmptyMap
    /\ clientIds = EmptyMap
    /\ clientRequests = EmptyMap
    /\ nextClientId = 1
    /\ conn = [c \in Conns |-> "new"]
    /\ subscribed = {}
    /\ last = Last("init", 0, <<>>, <<>>)
    /\ mk = NoMatch
    /\ wsClient \in {[NoClient EXCEPT !.reconnect = r, !.limit = l] :
                        r \in BOOLEAN, l \in ReconnectAttemptsOptions}
    /\ postReq = NoPost

NextClient ==
    \/ Mount
    \/ Unmount
    \/ \E s \in Sockets : SocketOpen(s)
    \/ \E s \in Sockets : SocketClose(s)
    \/ ReconnectTimer
    \/ \E active \in SUBSET QueryKeys : CacheEvent(active)

SpecClient == InitClient /\ [][NextClient]_vars

\* a timer that was set fires, and a socket that can open opens
SpecClientFair ==
    /\ SpecClient
    /\ WF_vars(ReconnectTimer)
    /\ WF_vars(\E s \in Sockets : SocketOpen(s))

\* a connected client: the handlers registered with subscribe and the
\* messages its socket receives
InitDispatch ==
    /\ subscriptions = EmptyMap
    /\ clientIds = EmptyMap
    /\ clientRequests = EmptyMap
    /\ nextClientId = 1
    /\ conn = [c \in Conns |-> "new"]
    /\ subscribed = {}
    /\ last = Last("init", 0, <<>>, <<>>)
    /\ mk = NoMatch
    /\ wsClient = [NoClient EXCEPT !.ws = 1, !.sock[1] = "open"]
    /\ postReq = NoPost

NextDispatch ==
    \/ \E f \in Fns : Subscribe(f)
    \/ \E r \in 1..MaxRegs : Unsubscribe(r)
    \/ \E data \in MessageData : HandleEvent(1, data)

SpecDispatch == InitDispatch /\ [][NextDispatch]_vars

(***************************************************************************)
(* Properties                                                              *)
(***************************************************************************)
\* the handles subscribed to the key with text k
Subscribers(subs, k) == IF k \in DOMAIN subs THEN subs[k] ELSE {}

\* the texts of the keys ws is subscribed to
KeysOf(subs, ws) == {k \in DOMAIN subs : ws \in subs[k]}

NoDuplicates(seq) ==
    \A i, j \in 1..Len(seq) : seq[i] = seq[j] => i = j

\* the first event of the given type emitted by the last handler
HasEvent(type) == \E i \in 1..Len(last.events) : last.events[i].type = type

EventOf(l, type) ==
    l.events[CHOOSE i \in 1..Len(l.events) : l.events[i].type = type]

RECURSIVE Sum(_, _)
Sum(f, S) ==
    IF S = {} THEN 0
    ELSE LET x == CHOOSE y \in S : TRUE IN f[x] + Sum(f, S \ {x})

\* C1: a connection is in the subscriber set of a key exactly when it has
\* sent a subscription for that key and has not since unsubscribed from it,
\* been closed, or been purged after a failed send.
C1_RegistryInvariant ==
    /\ DOMAIN subscriptions \subseteq {JSONstringify(k) : k \in SubKeys}
    /\ \A c \in Conns, k \in SubKeys :
          c \in Subscribers(subscriptions, JSONstringify(k))
             <=> <<c, DeepClass(k)>> \in subscribed

\* C1 witness: a dead-send purge emptied one connection's subscriptions while
\* another connection stays subscribed.
C1_Witness ==
    /\ last.kind = "invalidate"
    /\ last.failed # {}
    /\ subscribed # {}
    /\ \E c \in last.failed : KeysOf(last.events[1].snap, c) # {}

\* C2: an invalidation that is not prevented and in which no send fails is
\* sent to a connection exactly when the connection is subscribed to a key S
\* with isKeyMatch(S, K).
C2_Delivery ==
    (last.kind = "invalidate" /\ ~last.prevented /\ last.failed = {}) =>
        \A c \in Conns :
            last.sent[c] >= 1 <=>
                \E S \in SubKeys :
                    /\ <<c, DeepClass(S)>> \in subscribed
                    /\ isKeyMatch(S, last.key)

\* C2 witness: one connection is notified while an open connection holding
\* only a subscription that does not match is not.
C2_Witness ==
    /\ last.kind = "invalidate" /\ ~last.prevented /\ last.failed = {}
    /\ \E c1, c2 \in Conns :
          /\ last.sent[c1] >= 1
          /\ last.sent[c2] = 0
          /\ conn[c2] = "open"
          /\ KeysOf(subscriptions, c2) # {}

AllPrimitive(key) == \A i \in 1..Len(key) : ~IsComposite(key[i])

\* q equals s element by element, or q is a proper prefix of s
IsPrefixOrEqual(s, q) ==
    /\ Len(q) <= Len(s)
    /\ \A i \in 1..Len(q) : DeepEq(q[i], s[i])

C4_DeepEquality ==
    mk.done => (mk.r <=> IsPrefixOrEqual(mk.s, mk.q))

\* C5: an empty invalidation key does not match a non-empty subscription
\* key.
C5_EmptyKeyNoMatch ==
    (mk.done /\ Len(mk.s) > 0 /\ Len(mk.q) = 0) => ~mk.r

NoEmptySet(subs) == \A k \in DOMAIN subs : subs[k] # {}

\* C6: between handlers and at every emit, no registered key has an empty
\* subscriber set, and the registered keys are exactly the keys with at
\* least one current subscriber.
C6_GarbageCollection ==
    /\ NoEmptySet(subscriptions)
    /\ \A i \in 1..Len(last.events) : NoEmptySet(last.events[i].snap)
    /\ DOMAIN subscriptions =
          {JSONstringify(k) : k \in {x \in SubKeys :
              \E c \in Conns : <<c, DeepClass(x)>> \in subscribed}}

\* C6 witness: the last subscriber of a key unsubscribed and the key is gone
\* while another key stays registered.
C6_Witness ==
    /\ last.kind = "unsubscription"
    /\ EventOf(last, "query:unsubscribe").n = 0
    /\ JSONstringify(last.key) \notin DOMAIN subscriptions
    /\ subscriptions # EmptyMap

\* C7: a close removes the connection from every subscriber set and from
\* connection tracking in one step, and the disconnect event lists exactly
\* the keys the connection was subscribed to before the close, each once.
C7_PurgeOnClose ==
    [][\A c \in Conns :
          (conn[c] \in {"open", "dead"} /\ conn'[c] = "closed") =>
             /\ KeysOf(subscriptions', c) = {}
             /\ c \notin DOMAIN clientIds'
             /\ c \notin DOMAIN clientRequests'
             /\ last'.kind = "close"
             /\ Len(last'.events) = 1
             /\ LET removed == last'.events[1].removedSubscriptions
                IN /\ last'.events[1].type = "client:disconnect"
                   /\ NoDuplicates([i \in 1..Len(removed) |->
                                       DeepClass(removed[i])])
                   /\ {JSONstringify(removed[i]) : i \in 1..Len(removed)}
                         = KeysOf(subscriptions, c)]_vars

\* C7 witness: a connection subscribed to two keys was closed.
C7_Witness ==
    /\ last.kind = "close"
    /\ Len(last.events[1].removedSubscriptions) = 2
    /\ last.ws \notin DOMAIN clientIds

\* C8: when the send to A fails and B is subscribed to a matching key, B is
\* still sent the notification, A is removed from every subscriber set and
\* from connection tracking, the completed event counts B and not A, and
\* the failure is not raised to the caller.
C8_DeadSubscriberIsolation ==
    (last.kind = "invalidate" /\ ~last.prevented) =>
        /\ ~last.threw
        /\ HasEvent("query:invalidate")
        /\ \A A \in last.failed :
              /\ KeysOf(subscriptions, A) = {}
              /\ A \notin DOMAIN clientIds
              /\ A \notin DOMAIN clientRequests
              /\ last.sent[A] = 0
        /\ \A B \in Conns \ last.failed :
              (\E k \in KeysOf(subscriptions, B) :
                  isKeyMatch(JSONparse(k), last.key)) => last.sent[B] >= 1
        /\ EventOf(last, "query:invalidate").n = Sum(last.sent, Conns)

\* C8 witness: one send failed and another subscriber was notified.
C8_Witness ==
    /\ last.kind = "invalidate" /\ ~last.prevented
    /\ last.failed # {}
    /\ \E B \in Conns : last.sent[B] >= 1
    /\ EventOf(last, "query:invalidate").n >= 1

\* C9: the close of a connection already purged by removeDeadClient removes
\* no key, reports an empty removed-subscriptions list and leaves the
\* registry and the open-connection count as they were.
C9_IdempotentPurge ==
    [][\A c \in Conns :
          (conn[c] = "dead" /\ c \notin DOMAIN clientIds
             /\ conn'[c] = "closed") =>
             /\ subscriptions' = subscriptions
             /\ clientIds' = clientIds
             /\ clientRequests' = clientRequests
             /\ last'.events[1].removedSubscriptions = <<>>
             /\ last'.events[1].n = Cardinality(DOMAIN clientIds)
             /\ ~last'.threw]_vars

\* C9 witness: the transport closed a connection that removeDeadClient had
\* purged, while other subscriptions were registered.
C9_Witness ==
    /\ last.kind = "close"
    /\ last.events[1].clientId = Unknown
    /\ last.events[1].removedSubscriptions = <<>>
    /\ subscriptions # EmptyMap

\* C10: if a listener of an authorization hook calls deny(), the connection
\* is rejected with 403 and never opened, and the POST /invalidate is
\* answered 403 and nothing is sent, whatever allow() calls are made.
C10_DenyIsTerminal ==
    /\ (last.kind = "upgrade" /\ last.denied) =>
          (last.status = 403 /\ conn[last.ws] = "rejected")
    /\ (last.kind = "post" /\ last.denied) =>
          (last.status = 403 /\ \A c \in Conns : last.sent[c] = 0)

\* C11: hook short-circuit.  With two listeners registered on the
\* before:invalidation hook, when the first in registration order denies,
\* the second is not invoked for that invalidation and no client is
\* notified.
C11_HookShortCircuit ==
    (last.kind = "post" /\ last.registered = 2 /\ last.firstDenied)
        => /\ last.invoked = 1
           /\ \A c \in Conns : last.sent[c] = 0

\* C12: every invalidation is subject to the before-invalidation hooks,
\* whichever entry point it came through: when the listeners registered with
\* onBeforeInvalidation deny the key, no notification is sent, for a direct
\* call invalidateQuery(K) exactly as for POST /invalidate.
C12_HooksOnEveryEntryPoint ==
    (last.kind \in {"post", "invalidate"} /\ last.registered > 0
        /\ ~last.verdict)
        => \A c \in Conns : last.sent[c] = 0

\* C13: suppression.  When a query:before-invalidate listener calls
\* preventDefault() during invalidateQuery(K), no notification is sent even
\* if matching subscribers exist, query:invalidate is not emitted, and the
\* registry and the connection tracking are left unchanged.
C13_Suppression ==
    [][(last'.kind = "invalidate" /\ last'.prevented)
        => /\ \A c \in Conns : last'.sent[c] = 0
           /\ \A i \in 1..Len(last'.events) :
                 last'.events[i].type # "query:invalidate"
           /\ last'.failed = {}
           /\ subscriptions' = subscriptions
           /\ clientIds' = clientIds
           /\ clientRequests' = clientRequests
           /\ nextClientId' = nextClientId]_vars

\* a prevented invalidation of a key that matches a subscription with a live
\* and a dead subscriber
C13_Witness ==
    /\ last.kind = "invalidate" /\ last.prevented
    /\ \E k \in DOMAIN subscriptions :
          /\ isKeyMatch(JSONparse(k), last.key)
          /\ \E c, d \in subscriptions[k] :
                conn[c] = "open" /\ conn[d] = "dead"

\* C14: invalidating a key that matches no registered subscription is not
\* an error: the before-invalidate listeners are still invoked, with an
\* empty matchedKeys, and unless one of them prevents it exactly one
\* query:invalidate is emitted, with matchedKeys empty and a notified count
\* of 0, and nothing is sent to any connection.
C14_NoMatchInvalidation ==
    [][(/\ last'.kind = "invalidate"
        /\ \A k \in DOMAIN subscriptions :
              ~isKeyMatch(JSONparse(k), last'.key))
        => /\ ~last'.threw
           /\ \A c \in Conns : last'.sent[c] = 0
           /\ Len(last'.events) = (IF last'.prevented THEN 1 ELSE 2)
           /\ last'.events[1].type = "query:before-invalidate"
           /\ last'.events[1].matchedKeys = <<>>
           /\ ~last'.prevented =>
                 /\ last'.events[2].type = "query:invalidate"
                 /\ last'.events[2].matchedKeys = <<>>
                 /\ last'.events[2].n = 0]_vars

\* a processed invalidation of a key that matches none of the registered
\* keys, on a server that has subscribers
C14_Witness ==
    /\ last.kind = "invalidate" /\ ~last.prevented
    /\ subscriptions # EmptyMap
    /\ ~last.changed
    /\ \A k \in DOMAIN subscriptions : ~isKeyMatch(JSONparse(k), last.key)
    /\ Len(last.events) = 2

\* what the caller of invalidateQuery, or the sender of POST /invalidate,
\* gets back
Outcome(l) == <<l.status, l.returned>>

C16_TotalSubscriptionsPreDispatch ==
    (last.kind = "invalidate" /\ HasEvent("query:invalidate"))
        => /\ EventOf(last, "query:invalidate").totalSubscriptions =
                EventOf(last, "query:before-invalidate").totalSubscriptions
           /\ EventOf(last, "query:invalidate").totalSubscriptions =
                Cardinality(DOMAIN last.events[1].snap)

\* C17: a connection denied by the before-connection hook never becomes an
\* open connection: no client id is assigned or consumed for it, no
\* client:connect event is emitted for it, and it is never added to the
\* connection tracking or to any subscriber set; the handlers run before any
\* such state could be created.
C17_DeniedNeverOpens ==
    /\ [](/\ (last.kind = "upgrade" /\ ~last.isAllowed)
               => (conn[last.ws] = "rejected" /\ last.events = <<>>)
          /\ \A c \in Conns : conn[c] \in {"new", "rejected"} =>
                /\ c \notin DOMAIN clientIds
                /\ c \notin DOMAIN clientRequests
                /\ KeysOf(subscriptions, c) = {}
                /\ \A i \in 1..Len(last.events) :
                      last.events[i].type = "client:connect" => last.ws # c)
    /\ [][\A c \in Conns :
            /\ conn[c] = "rejected" => conn'[c] = "rejected"
            /\ (conn[c] = "new" /\ conn'[c] = "rejected") =>
                  /\ nextClientId' = nextClientId
                  /\ clientIds' = clientIds
                  /\ clientRequests' = clientRequests
                  /\ subscriptions' = subscriptions]_vars

\* a handle was denied, and the server went on to open another one and to
\* take a subscription from it
C17_Witness ==
    \E c, d \in Conns :
        /\ conn[c] = "rejected"
        /\ conn[d] = "open" /\ clientIds[d] = 1
        /\ KeysOf(subscriptions, d) # {}

\* C18: client ids are unique for the life of the server.  Under any
\* interleaving of connects, closes and dead-send purges no two opened
\* connections get the same id, ids are assigned in strictly increasing
\* counter order, and an id is never reused after its connection closed.
C18_UniqueClientIds ==
    /\ [](/\ \A c \in DOMAIN clientIds : clientIds[c] < nextClientId
          /\ \A c, d \in DOMAIN clientIds :
                clientIds[c] = clientIds[d] => c = d)
    /\ [][/\ nextClientId' >= nextClientId
          /\ \A c \in DOMAIN clientIds' :
                IF c \in DOMAIN clientIds
                THEN clientIds'[c] = clientIds[c]
                ELSE /\ clientIds'[c] = nextClientId
                     /\ nextClientId' = nextClientId + 1
                     /\ last'.events[1].type = "client:connect"
                     /\ last'.events[1].clientId = nextClientId]_vars

\* a connection was opened and closed, and the next one opened alone with
\* the next id
C18_Witness ==
    /\ last.kind = "open"
    /\ last.events[1].clientId = 2 /\ last.events[1].n = 1
    /\ \E c \in Conns : conn[c] = "closed"
    /\ nextClientId = 3

\* C19: unsubscribing a (key, connection) pair that is not in the registry
\* is a silent no-op: no error is raised or sent, and every subscriber set
\* and the set of registered keys are unchanged.
C19_UnsubscribeAbsentNoOp ==
    [][(/\ last'.kind = "unsubscription"
        /\ last'.ws \notin
              Subscribers(subscriptions, JSONstringify(last'.key)))
        => /\ subscriptions' = subscriptions
           /\ last'.errors = 0 /\ ~last'.threw
           /\ clientIds' = clientIds /\ clientRequests' = clientRequests
           /\ conn' = conn]_vars

\* an unsubscription that changed nothing, for a key other handles are
\* subscribed to
C19_Witness ==
    /\ last.kind = "unsubscription" /\ ~last.changed
    /\ Subscribers(subscriptions, JSONstringify(last.key)) # {}
    /\ last.events[1].type = "query:unsubscribe"

\* C20: per-connection FIFO.  After any sequence of messages from an open
\* connection c, c is subscribed to k exactly when the last delivered
\* message from c concerning k was a subscription: each message takes
\* effect when it is delivered, and until c's next message about k nothing
\* changes c's membership for k while c stays open.
C20_PerConnectionFIFO ==
    [][\A c \in Conns, k \in SubKeys :
         IF /\ last'.kind \in {"subscription", "unsubscription"}
            /\ last'.ws = c /\ DeepClass(last'.key) = DeepClass(k)
         THEN (c \in Subscribers(subscriptions', JSONstringify(k)))
                 <=> (last'.kind = "subscription")
         ELSE (conn[c] = "open" /\ conn'[c] = "open") =>
                 ((c \in Subscribers(subscriptions', JSONstringify(k)))
                    <=> (c \in Subscribers(subscriptions, JSONstringify(k))))]_vars

\* a connection subscribed to a key another connection holds too, then
\* unsubscribed from it: it is out, the other still in
C20_Witness ==
    /\ last.kind = "unsubscription" /\ last.changed
    /\ conn[last.ws] = "open"
    /\ last.ws \notin Subscribers(subscriptions, JSONstringify(last.key))
    /\ Subscribers(subscriptions, JSONstringify(last.key)) # {}
    /\ \E k \in DOMAIN subscriptions : last.ws \in subscriptions[k]

\* C21: IP allow-list.  When the server is created with a non-empty
\* allowedIps option, a POST /invalidate whose x-forwarded-for address is
\* missing or not in the list is answered 403 and triggers no invalidation
\* (no hook, no notification, no query:invalidate event).
C21_IpAllowList ==
    (last.kind = "post" /\ last.unlisted)
        => /\ last.status = 403
           /\ last.invoked = 0
           /\ last.events = <<>>
           /\ \A c \in Conns : last.sent[c] = 0

\* C22: subscriber counts in events are exact.  totalSubscribers of
\* query:subscribe is the number of distinct connections subscribed to the
\* key once the subscription is applied, and remainingSubscribers of
\* query:unsubscribe is the number of subscribers left after the removal, 0
\* when the key is no longer registered.
C22_SubscriberCounts ==
    /\ last.kind = "subscription" =>
          /\ last.events[1].type = "query:subscribe"
          /\ last.events[1].n =
                Cardinality(Subscribers(subscriptions,
                                        JSONstringify(last.key)))
          /\ last.events[1].n >= 1
    /\ last.kind = "unsubscription" =>
          /\ last.events[1].type = "query:unsubscribe"
          /\ last.events[1].n =
                Cardinality(Subscribers(subscriptions,
                                        JSONstringify(last.key)))
          /\ (last.events[1].n = 0) <=>
                (JSONstringify(last.key) \notin DOMAIN subscriptions)

\* two connections subscribed to a key and one of them unsubscribed: one
\* subscriber remains
C22_Witness ==
    /\ last.kind = "unsubscription" /\ last.changed
    /\ last.events[1].n = 1
    /\ Cardinality(Subscribers(subscriptions, JSONstringify(last.key))) = 1

\* the positions of the client:disconnect events among the events of l
Disconnects(l) ==
    {i \in 1..Len(l.events) : l.events[i].type = "client:disconnect"}

\* C23: connection counts in events are exact under any interleaving of
\* connects, closes and dead-send purges.  client:connect reports the
\* number of open connections including the new one, client:disconnect the
\* number of open connections excluding the closed one, and the tracked
\* handles are the open connections: every handle between its open and its
\* close, less those a failed send has removed.
C23_ConnectionCounts ==
    /\ {c \in Conns : conn[c] = "open"} \subseteq DOMAIN clientIds
    /\ DOMAIN clientIds \subseteq {c \in Conns : conn[c] \in {"open", "dead"}}
    /\ DOMAIN clientRequests = DOMAIN clientIds
    /\ last.kind = "open" =>
          /\ last.events[1].type = "client:connect"
          /\ last.ws \in DOMAIN clientIds
          /\ last.events[1].n = Cardinality(DOMAIN clientIds)
    /\ last.kind = "close" =>
          /\ last.events[1].type = "client:disconnect"
          /\ last.ws \notin DOMAIN clientIds
          /\ last.events[1].n = Cardinality(DOMAIN clientIds)
    /\ last.kind = "invalidate" =>
          /\ Cardinality(Disconnects(last)) = Cardinality(last.failed)
          /\ last.events # <<>> =>
                DOMAIN clientIds = last.events[1].tracked \ last.failed
          /\ \A i \in Disconnects(last) :
                last.events[i].n = Cardinality(DOMAIN clientIds)
                    + Cardinality({j \in Disconnects(last) : j > i})

\* a failed send purged one of two tracked connections: the disconnect
\* event counts the one that is still open
C23_Witness ==
    /\ last.kind = "invalidate" /\ last.failed # {}
    /\ \E i \in Disconnects(last) : last.events[i].n = 1
    /\ \E c \in Conns : conn[c] = "open" /\ DOMAIN clientIds = {c}

\* C24: notifiedClients of query:invalidate is the number of distinct
\* connections that were notified: within one invalidateQuery call each
\* connection is sent the invalidation at most once, even when it is
\* subscribed to several of the matched keys.
C24_NotifiedDistinctClients ==
    (last.kind = "invalidate" /\ HasEvent("query:invalidate"))
        => /\ \A c \in Conns : last.sent[c] <= 1
           /\ EventOf(last, "query:invalidate").n =
                Cardinality({c \in Conns : last.sent[c] > 0})

\* the query with key q is active while the hook is mounted and the client
\* holds an open connection
ActiveAndOpen(q) ==
    /\ wsClient.mounted /\ q \in wsClient.activeQueries
    /\ CanSend(wsClient)

\* C25: automatic subscription management.  Whenever a query is active
\* while the client holds an open connection to the server, the server
\* eventually holds a subscription for that query key on the client's
\* current connection (or the query stops being active, or the connection
\* open); this includes queries that became active before the socket
\* finished opening and queries that stayed active across a connection loss
\* and automatic reconnect.
C25_EventuallySubscribed ==
    \A q \in QueryKeys :
        [](ActiveAndOpen(q) =>
             <>(<<wsClient.ws, q>> \in wsClient.held \/ ~ActiveAndOpen(q)))

\* the handler functions with a subscribe call whose unsubscribe() has not
\* been called
Registered(c) ==
    {c.regs[r].fn : r \in {i \in 1..Len(c.regs) : c.regs[i].unsubscribed = 0}}

\* C26: client-side handler dispatch.  For every valid incoming packet of
\* type T every handler registered for T through subscribe, and not yet
\* unsubscribed, is invoked exactly once; a handler is never invoked after
\* its unsubscribe() was called; an invalid packet invokes no handler.
C26_HandlerDispatch ==
    wsClient.op = "onmessage" =>
        /\ wsClient.data = PacketText =>
              \A f \in Registered(wsClient) : wsClient.calls[f] = 1
        /\ \A f \in Fns \ Registered(wsClient) : wsClient.calls[f] = 0
        /\ wsClient.data # PacketText =>
              \A f \in Fns : wsClient.calls[f] = 0

\* the positions in the handler's step log of the steps of the given kinds
StepsAt(l, ops) == {i \in 1..Len(l.steps) : l.steps[i].op \in ops}

\* C27: inside one invalidation the steps come in a fixed order: for a POST
\* the before:invalidation emit comes first, and a denied request does
\* nothing else; then the key scan, then the one query:before-invalidate
\* emit, then (unless a listener prevented it) every send, then exactly one
\* query:invalidate emit as the last step. No send comes before
\* query:before-invalidate, and a prevented invalidation has neither a send
\* nor a query:invalidate.
C27_InvalidationOrder ==
    last.kind \in {"invalidate", "post"} =>
        LET hook == StepsAt(last, {"before:invalidation"})
            match == StepsAt(last, {"match"})
            before == StepsAt(last, {"query:before-invalidate"})
            sends == StepsAt(last, {"send", "send throws",
                                    "client:disconnect"})
            done == StepsAt(last, {"query:invalidate"})
        IN /\ hook = IF last.kind = "post" THEN {1} ELSE {}
           /\ Cardinality(StepsAt(last, {"send"})) = Sum(last.sent, Conns)
           /\ last.status = 403 => Len(last.steps) = 1
           /\ last.status # 403 =>
                 /\ Cardinality(match) = 1
                 /\ Cardinality(before) = 1
                 /\ \A h \in hook, i \in match : h < i
                 /\ \A i \in match, j \in before : i < j
                 /\ \A j \in before, k \in sends : j < k
                 /\ last.prevented => sends = {} /\ done = {}
                 /\ ~last.prevented => done = {Len(last.steps)}

\* a POST that passed one before:invalidation listener, delivered to one
\* subscriber and failed to send to another
C27_Witness ==
    /\ last.kind = "post" /\ last.status = 200 /\ last.invoked = 1
    /\ ~last.prevented
    /\ StepsAt(last, {"send"}) # {}
    /\ StepsAt(last, {"send throws"}) # {}
    /\ HasEvent("query:invalidate")

\* the positions in the handler's step log of the step op on the handle ws
StepsOf(l, op, ws) == {i \in 1..Len(l.steps) : l.steps[i] = Step(op, ws)}

\* C28: within one invalidateQuery call, a connection whose send fails is
\* purged exactly once: one failed send, followed at once by one
\* removeDeadClient with one client:disconnect event of code 1006, and no
\* further send to it in that call, even if it was subscribed to several
\* matched keys.  The loop goes on without error: the connections whose send
\* failed are the dead subscribers of the matched keys, every other
\* subscriber is sent to once for each matched key it is subscribed to,
\* keys deleted by the purge are skipped, and query:invalidate is emitted.
C28_PurgeDuringDispatch ==
    (last.kind \in {"invalidate", "post"} /\ last.status # 403
        /\ ~last.prevented) =>
        LET snap == last.events[1].snap
            matchedKeys == last.events[1].matchedKeys
            matched == {JSONstringify(matchedKeys[i]) :
                           i \in 1..Len(matchedKeys)}
            mine(c) == {k \in matched : c \in snap[k]}
        IN /\ ~last.threw
           /\ last.events[Len(last.events)].type = "query:invalidate"
           /\ last.failed = {c \in Dead : mine(c) # {}}
           /\ Cardinality(Disconnects(last)) = Cardinality(last.failed)
           /\ \A i \in Disconnects(last) :
                 last.events[i].code = AbnormalClosure
           /\ \A c \in last.failed :
                 /\ Cardinality(StepsOf(last, "send throws", c)) = 1
                 /\ Cardinality(StepsOf(last, "client:disconnect", c)) = 1
                 /\ StepsOf(last, "send", c) = {}
                 /\ \A i \in StepsOf(last, "send throws", c) :
                       last.steps[i + 1] = Step("client:disconnect", c)
                 /\ KeysOf(subscriptions, c) = {}
           /\ \A c \in Conns \ Dead :
                 /\ StepsOf(last, "send throws", c) = {}
                 /\ StepsOf(last, "client:disconnect", c) = {}
                 /\ Cardinality(StepsOf(last, "send", c))
                        = Cardinality(mine(c))

\* C28 witness: the dead connection was subscribed to both matched keys and
\* alone on the second, which its purge deleted while the loop was at the
\* first; the other subscriber of the first key was notified.
C28_Witness ==
    /\ last.kind = "invalidate" /\ ~last.prevented
    /\ Len(last.events[1].matchedKeys) = 2
    /\ \E c \in last.failed, d \in Conns \ Dead :
          LET snap == last.events[1].snap
              k1 == JSONstringify(last.events[1].matchedKeys[1])
              k2 == JSONstringify(last.events[1].matchedKeys[2])
          IN /\ snap[k1] = {c, d} /\ snap[k2] = {c}
             /\ k2 \notin DOMAIN subscriptions
             /\ last.sent[d] = 1
    /\ HasEvent("query:invalidate")

\* the registered keys of subs that match key, as the events report them
MatchingKeys(subs, key) ==
    {JSONparse(k) : k \in {x \in DOMAIN subs : isKeyMatch(JSONparse(x), key)}}

\* the query:before-invalidate and query:invalidate events of a handler
QueryEvents(l) ==
    {i \in 1..Len(l.events) :
        l.events[i].type \in {"query:before-invalidate", "query:invalidate"}}

\* C29 as stated: the matchedKeys of query:before-invalidate and of
\* query:invalidate is the set of keys registered when the event is emitted
\* that match the invalidated key, each listed once, so that a key whose last
\* subscriber has disconnected does not appear in it.
C29_MatchedKeysCurrent ==
    \A i \in QueryEvents(last) :
        /\ NoDuplicates(last.events[i].matchedKeys)
        /\ Range(last.events[i].matchedKeys)
              = MatchingKeys(last.events[i].snap, last.key)

\* C29 amended: the matchedKeys of both events is the set of keys that were
\* registered when invalidateQuery scanned the registry and match the
\* invalidated key, each listed once; every such key had a subscriber at
\* that moment, so a key whose last subscriber unsubscribed or disconnected
\* before the call does not appear.  A key deleted by a failed send of this
\* call is still listed in this call's query:invalidate.
C29_MatchedKeysAtScan ==
    \A i \in QueryEvents(last) :
        /\ last.events[1].type = "query:before-invalidate"
        /\ NoEmptySet(last.events[1].snap)
        /\ NoDuplicates(last.events[i].matchedKeys)
        /\ Range(last.events[i].matchedKeys)
              = MatchingKeys(last.events[1].snap, last.key)
        /\ last.events[i].matchedKeys = last.events[1].matchedKeys

\* C29 witness: a subscription key that would match has no subscriber and is
\* not listed, and a failed send of this call deleted the listed key before
\* query:invalidate was emitted.
C29_Witness ==
    /\ last.kind \in {"invalidate", "post"}
    /\ HasEvent("query:invalidate")
    /\ Len(last.events[1].matchedKeys) = 1
    /\ \E k \in SubKeys :
          /\ isKeyMatch(k, last.key)
          /\ JSONstringify(k) \notin DOMAIN last.events[1].snap
    /\ \E i \in QueryEvents(last) :
          /\ last.events[i].type = "query:invalidate"
          /\ DOMAIN last.events[i].snap = {}

\* deep equality of two keys
KeyDeepEq(a, b) ==
    Len(a) = Len(b) /\ \A i \in 1..Len(a) : DeepEq(a[i], b[i])

\* C30: the canonical form identifies keys exactly up to deep equality and
\* round-trips.  Two registry entries never stand for deeply equal keys, so
\* the subscribers of a key, however its nested objects order their fields,
\* are together in one entry, which holds nobody else; and the canonical
\* form of a subscribed key parses to a key deeply equal to it.
C30_Canonicalization ==
    /\ \A k1, k2 \in DOMAIN subscriptions :
          KeyDeepEq(JSONparse(k1), JSONparse(k2)) <=> k1 = k2
    /\ \A x \in subscribed :
          \E k \in DOMAIN subscriptions :
              x[1] \in subscriptions[k] /\ DeepClass(JSONparse(k)) = x[2]
    /\ \A k \in DOMAIN subscriptions : \A c \in subscriptions[k] :
          <<c, DeepClass(JSONparse(k))>> \in subscribed
    /\ last.kind = "subscription" =>
          /\ JSONstringify(last.key) \in DOMAIN subscriptions
          /\ KeyDeepEq(JSONparse(JSONstringify(last.key)), last.key)

\* C31: a request whose accumulated body size exceeds maxBodySize is
\* answered 413 and runs neither the before:invalidation hook nor
\* invalidateQuery, in whichever chunk the limit is crossed and whatever
\* chunks follow; a body that never exceeds the limit is never answered 413,
\* and a whole body of at most maxBodySize bytes that parses to a key reaches
\* the hook.
C31_BodySizeLimit ==
    /\ postReq.bodySize > postReq.maxBodySize =>
          /\ postReq.status = 413
          /\ postReq.hooks = 0 /\ postReq.invalidations = 0
          /\ postReq.body <= postReq.maxBodySize
    /\ postReq.bodySize <= postReq.maxBodySize =>
          /\ postReq.status # 413
          /\ (postReq.isLast /\ postReq.content = "key") =>
                /\ postReq.hooks = 1
                /\ postReq.status \in {200, 403}
                /\ postReq.status = 200 <=> postReq.invalidations = 1

\* C31 witness: the limit was crossed by the second of three chunks and the
\* third, the last, arrived afterwards.
C31_Witness ==
    /\ postReq.chunks = 3 /\ postReq.isLast /\ postReq.content = "key"
    /\ postReq.status = 413 /\ postReq.ends = 2
    /\ postReq.body > 0

\* a body of exactly maxBodySize bytes, in two chunks, was processed
C31_WitnessExact ==
    /\ postReq.chunks = 2 /\ postReq.isLast
    /\ postReq.bodySize = postReq.maxBodySize
    /\ postReq.status = 200 /\ postReq.invalidations = 1

\* C32: a message is handled all-or-nothing: either it is applied, with its
\* query:subscribe or query:unsubscribe event and no error reply, or the
\* sender gets an error reply, the registry is as it was before the message
\* and no subscribe or unsubscribe event is emitted.
C32_AllOrNothing ==
    last.kind \in {"subscription", "unsubscription", "badmessage"} =>
        \/ /\ last.errors = 0
           /\ last.kind # "badmessage"
           /\ last.events # <<>>
           /\ last.events[1].type \in {"query:subscribe", "query:unsubscribe"}
        \/ /\ last.errors = 1
           /\ ~last.changed
           /\ last.events = <<>>

\* C33: the client makes at most config.options.reconnectAttempts
\* reconnection attempts without a successful open in between; a successful
\* open sets the attempt counter to 0; with reconnect disabled no attempt is
\* scheduled or made.
C33_BoundedReconnection ==
    /\ wsClient.reconnectAttempts <= wsClient.limit
    /\ wsClient.op = "onopen" => wsClient.reconnectAttempts = 0
    /\ ~wsClient.reconnect =>
          /\ wsClient.timers = 0
          /\ wsClient.reconnectAttempts = 0
          /\ wsClient.op # "timer"

\* C34: every connection in a subscriber set is a tracked connection that
\* was opened and has been neither closed nor purged: it has its entry in
\* clientIds, which open writes with the id that client:connect reports.
C34_SubscribersAreTracked ==
    /\ \A k \in DOMAIN subscriptions : \A c \in subscriptions[k] :
          /\ c \in DOMAIN clientIds
          /\ conn[c] \in {"open", "dead"}
          /\ clientIds[c] # Unknown
    /\ \A c \in Conns :
          (conn[c] \in {"new", "rejected", "upgraded", "closed"}
             \/ c \notin DOMAIN clientIds) => KeysOf(subscriptions, c) = {}
    /\ last.kind = "open" =>
          clientIds[last.ws] = last.events[1].clientId

\* C34 witness: a failed send purged a subscriber, which is no longer
\* tracked, and the registry keeps the other subscriber.
C34_Witness ==
    /\ last.kind = "invalidate"
    /\ \E c \in last.failed : c \notin DOMAIN clientIds
    /\ \E k \in DOMAIN subscriptions : subscriptions[k] # {}

\* C35: an opened connection produces exactly one client:disconnect event,
\* with the client id assigned at its open: whenever a handler emits
\* client:disconnect for a connection, by its close or by a failed send,
\* the connection was tracked until then, so no such event was emitted for
\* it before, and the event carries the id clientIds held for it.
C35_OneDisconnect ==
    [][/\ last'.kind = "close" =>
             /\ Cardinality(Disconnects(last')) = 1
             /\ last'.ws \in DOMAIN clientIds
             /\ last'.events[1].clientId = clientIdOf(clientIds, last'.ws)
             /\ last'.events[1].clientId # Unknown
       /\ last'.kind = "invalidate" =>
             /\ last'.failed \subseteq DOMAIN clientIds
             /\ Cardinality(Disconnects(last'))
                   = Cardinality(last'.failed)
             /\ \A c \in last'.failed : \E i \in Disconnects(last') :
                   last'.events[i].clientId = clientIdOf(clientIds, c)]_vars

\* C36: subscriptions are set membership.  A subscription of a connection to
\* a key it is already subscribed to leaves the registry as it was and
\* reports the same subscriber count; one unsubscription removes the
\* connection from the key completely; and an invalidation sends to a
\* connection once for each matched key it is subscribed to, however often
\* it subscribed.
C36_SetMembership ==
    [][/\ last'.kind = "subscription" =>
             LET key == JSONstringify(last'.key)
             IN /\ last'.ws \in Subscribers(subscriptions', key)
                /\ last'.events[1].n
                      = Cardinality(Subscribers(subscriptions', key))
                /\ last'.ws \in Subscribers(subscriptions, key) =>
                      /\ subscriptions' = subscriptions
                      /\ last'.events[1].n
                            = Cardinality(Subscribers(subscriptions, key))
       /\ last'.kind = "unsubscription" =>
             last'.ws \notin
                 Subscribers(subscriptions', JSONstringify(last'.key))
       /\ (last'.kind \in {"invalidate", "post"} /\ last'.status # 403
              /\ ~last'.prevented) =>
             \A c \in Conns \ Dead :
                 last'.sent[c] =
                     Cardinality({k \in KeysOf(subscriptions, c) :
                                     isKeyMatch(JSONparse(k), last'.key)})
      ]_vars

\* C36 witness: a connection subscribed again to a key that both
\* connections were subscribed to.
C36_Witness ==
    /\ last.kind = "subscription" /\ ~last.changed
    /\ last.events[1].n = 2
    /\ last.ws \in Subscribers(subscriptions, JSONstringify(last.key))

\* the connections a handler acted on: the sender of a message, the closed
\* connection, the connections a send to which failed
Actors(l) ==
    IF l.kind \in {"subscription", "unsubscription", "close"} THEN {l.ws}
    ELSE l.failed

\* C37: a subscription, unsubscription, close or dead-send purge of a
\* connection adds no other connection to a subscriber set and removes none,
\* and it deletes a key only if the connections it acted on were the key's
\* last subscribers, a single one for a message or a close.
C37_Isolation ==
    [][last'.kind \in {"subscription", "unsubscription", "close",
                       "invalidate"} =>
         /\ \A d \in Conns \ Actors(last') :
               KeysOf(subscriptions', d) = KeysOf(subscriptions, d)
         /\ \A k \in (DOMAIN subscriptions) \ (DOMAIN subscriptions') :
               /\ subscriptions[k] \subseteq Actors(last')
               /\ subscriptions[k] # {}
         /\ \A k \in (DOMAIN subscriptions) \cap (DOMAIN subscriptions') :
               subscriptions[k] \ subscriptions'[k] \subseteq Actors(last')
         /\ \A k \in (DOMAIN subscriptions') \ (DOMAIN subscriptions) :
               subscriptions'[k] \subseteq Actors(last')]_vars

\* C37 witness: a connection was closed that shared one key with the other
\* connection and was alone on the other key; the shared key stays with the
\* other connection and the other key is deleted.
C37_Witness ==
    /\ last.kind = "close"
    /\ Len(last.events[1].removedSubscriptions) = 2
    /\ Cardinality(DOMAIN subscriptions) = 1
    /\ \E k \in DOMAIN subscriptions, d \in Conns \ {last.ws} :
          subscriptions[k] = {d}

\* C38: after disconnect() the client stays disconnected: the close of a
\* socket that disconnect() closed schedules no reconnection attempt,
\* whatever the reconnect option is, so no socket is created because of it.
C38_StaysDisconnected ==
    [][\A s \in Sockets :
          (wsClient.sock[s] = "closing" /\ wsClient'.sock[s] = "closed") =>
              /\ wsClient'.timers = wsClient.timers
              /\ wsClient'.ws = wsClient.ws]_vars

\* the handlers that handleEvent finds for an invalidation packet:
\* this.eventHandlers.get("invalidation")
Dispatchable(c) == IF c.eventHandlers = 0 THEN {} ELSE c.sets[c.eventHandlers]

\* C39: unsubscribe() is idempotent and affects only its own handler: the
\* first call takes at most its own handler away from those an invalidation
\* packet is dispatched to, and a second or later call changes nothing, so
\* it removes no handler registered by another subscribe call, before or
\* after the first unsubscribe().
C39_UnsubscribeIdempotent ==
    [][\A r \in 1..Len(wsClient.regs) :
          (Len(wsClient'.regs) = Len(wsClient.regs)
             /\ wsClient'.regs[r].unsubscribed
                   = wsClient.regs[r].unsubscribed + 1) =>
              /\ Dispatchable(wsClient) \ {wsClient.regs[r].fn}
                    \subseteq Dispatchable(wsClient')
              /\ wsClient.regs[r].unsubscribed >= 1 =>
                    Dispatchable(wsClient') = Dispatchable(wsClient)]_vars

====
